---- MODULE Spec2Model ----
(***************************************************************************)
(* Model of the parts-lookup agent of cukaracha/hrspwr:                    *)
(*   - the LangGraph workflow of parts_agent.py / nodes.py (run_workflow), *)
(*   - match_part_node and _parse_xml_tag as pure functions,               *)
(*   - the worker pools of lookup_parts.py, analyze_object.py,             *)
(*     image_search.py, reverse_image_search.py, object_segmentation.py    *)
(*     and analyze-assignment.py,                                          *)
(*   - the model calls of openai_client.invoke_model made by the workflow  *)
(*     instances of one process,                                           *)
(*   - the response cache of restapi._cached_api_request,                  *)
(*   - the request validation of lookup_parts.lambda_handler and main,     *)
(*   - reverse_image_search.main and the S3 bucket it uploads to,          *)
(*   - the markdown rendering of the category tree, get_categories_md.     *)
(* Each part has its own specification; the variables of the other parts   *)
(* rest in their Idle state.                                               *)
(* Text is a sequence of tokens: one-character strings and whole XML tags. *)
(***************************************************************************)
EXTENDS Integers, Sequences, FiniteSets, TLC

\* ------------------------------------------------------------------ bounds
MaxParts == 2
MaxRespLen == 3
MaxTasks == 3

\* ------------------------------------------------------------- text model
Chars == {" ", "A", "a", "b"}

OpenTag(tag) == "<" \o tag \o ">"

CloseTag(tag) == "</" \o tag \o ">"

\* str.isspace() on one character
IsSpace(c) == c = " "

\* str.lower() on one token (tags of the model carry no upper-case letter)
LowerChar(c) == IF c = "A" THEN "a" ELSE IF c = "B" THEN "b" ELSE c

\* str.lower()
Lower(s) == [i \in 1..Len(s) |-> LowerChar(s[i])]

RECURSIVE LStrip(_)
LStrip(s) == IF s = <<>> THEN <<>>
             ELSE IF IsSpace(Head(s)) THEN LStrip(Tail(s)) ELSE s

RECURSIVE RStrip(_)
RStrip(s) == IF s = <<>> THEN <<>>
             ELSE IF IsSpace(s[Len(s)]) THEN RStrip(SubSeq(s, 1, Len(s) - 1)) ELSE s

\* str.strip()
Strip(s) == RStrip(LStrip(s))

\* code point of a character, for Python's string ordering
Ord(c) == IF c = " " THEN 32 ELSE IF c = "A" THEN 65 ELSE IF c = "a" THEN 97
          ELSE IF c = "b" THEN 98 ELSE 127

RECURSIVE StrLess(_, _)
StrLess(s, t) == IF t = <<>> THEN FALSE
                 ELSE IF s = <<>> THEN TRUE
                 ELSE IF Ord(Head(s)) < Ord(Head(t)) THEN TRUE
                 ELSE IF Ord(Head(s)) > Ord(Head(t)) THEN FALSE
                 ELSE StrLess(Tail(s), Tail(t))

\* sorted(list(set_of_strings))
RECURSIVE Sorted(_)
Sorted(S) == IF S = {} THEN <<>>
             ELSE LET m == CHOOSE x \in S : \A y \in S \ {x} : StrLess(x, y)
                  IN <<m>> \o Sorted(S \ {m})

\* index of the first occurrence of token t in s, 0 when absent
FirstIndex(s, t) == IF \E i \in 1..Len(s) : s[i] = t
                    THEN CHOOSE i \in 1..Len(s) : s[i] = t /\ \A j \in 1..(i - 1) : s[j] # t
                    ELSE 0

\* str.partition(t): (before, separator found, after)
Partition(s, t) == LET i == FirstIndex(s, t)
                   IN IF i = 0 THEN [before |-> s, found |-> FALSE, after |-> <<>>]
                      ELSE [before |-> SubSeq(s, 1, i - 1), found |-> TRUE,
                            after |-> SubSeq(s, i + 1, Len(s))]

\* openai_client._parse_xml_tag: ok = FALSE is the ValueError
_parse_xml_tag(response, tag) ==
    LET after_opening == Partition(response, OpenTag(tag)).after
        content == Partition(after_opening, CloseTag(tag)).before
    IN IF content = <<>> THEN [ok |-> FALSE, val |-> <<>>]
       ELSE [ok |-> TRUE, val |-> Strip(content)]

\* all token sequences of length at most n over the alphabet A
SeqsUpTo(A, n) == UNION {[1..k -> A] : k \in 0..n}

\* ------------------------------------------------- workflow: data and state
\* one entry of the catalog's 'articles' list; an empty name stands for a
\* missing or empty 'articleProductName', articleId 0 for a missing 'articleId'
Article(name, id) == [articleProductName |-> name, articleId |-> id]

\* dict 'result' of AgentState and of run_workflow's return value; keys is
\* the set of keys the dict holds
EmptyResult == [keys |-> {}, status |-> "", message |-> "", part_name |-> <<>>,
                category_id |-> <<>>]

NoMatchResult(msg) == [EmptyResult EXCEPT !.keys = {"status", "message"},
                                          !.status = "NO_MATCH", !.message = msg]

ErrorResult(msg) == [EmptyResult EXCEPT !.keys = {"status", "message"},
                                        !.status = "ERROR", !.message = msg]

SuccessResult(name, cat) == [EmptyResult EXCEPT !.keys = {"status", "part_name", "category_id"},
                                                !.status = "SUCCESS", !.part_name = name,
                                                !.category_id = cat]

\* prompts.json templates, formatted; one token each
SystemPrompt == <<"{system}">>

InferPrompt == <<"{infer_category}">>

InvalidCategoryPrompt == <<"{invalid_category}">>

\* "\n".join([f"- {part}" for part in unique_parts])
RECURSIVE Bullets(_)
Bullets(parts) == IF parts = <<>> THEN <<>>
                  ELSE <<"- ">> \o Head(parts)
                       \o (IF Len(parts) > 1 THEN <<"\n">> ELSE <<>>) \o Bullets(Tail(parts))

MatchPrompt(unique_parts) == <<"{match_part}">> \o Bullets(unique_parts)

Msg(role, content) == [role |-> role, content |-> content]

\* run_workflow's initial AgentState
InitialState(part_description, vehicle_id, country_filter_id) ==
    [part_description |-> part_description,
     category_id |-> <<>>,
     parts_list |-> <<>>,
     chat_history |-> <<>>,
     retry_count |-> 0,
     result |-> EmptyResult,
     error |-> "",
     vehicle_id |-> vehicle_id,
     country_filter_id |-> country_filter_id,
     oem_numbers |-> <<>>,
     s3image_uri |-> ""]

\* outcome of openai_client.invoke_model_text: a text or an exception
RaiseReply == [kind |-> "raise", text |-> <<>>]

TextReply(t) == [kind |-> "text", text |-> t]

\* ------------------------------------------------------ node infer_category
\* the messages infer_category_node sends: system prompt, history, new prompt
InferMessages(st) ==
    <<Msg("system", SystemPrompt)>>
    \o SelectSeq(st.chat_history, LAMBDA m : m.role \in {"user", "assistant"})
    \o <<Msg("user", InferPrompt)>>

infer_category_node(st, promptsOk, reply) ==
    LET failed == [st EXCEPT !.error = "Category inference failed"]
        cid == _parse_xml_tag(reply.text, "subcategory_id")
        cname == _parse_xml_tag(reply.text, "category")
    IN IF ~promptsOk THEN [state |-> failed, called |-> FALSE]
       ELSE IF reply.kind = "raise" \/ ~cid.ok \/ ~cname.ok
            THEN [state |-> failed, called |-> TRUE]
       ELSE [state |-> [st EXCEPT !.category_id = cid.val,
                                  !.chat_history = st.chat_history
                                       \o <<Msg("user", InferPrompt),
                                            Msg("assistant", reply.text)>>,
                                  !.error = ""],
             called |-> TRUE]

\* ------------------------------------------------------ node get_parts_list
\* outcome of _cached_api_request(...).json() for the articles list
RaiseCatalog == [kind |-> "raise", articles |-> <<>>, countArticles |-> 0]

CatalogData(articles, n) == [kind |-> "data", articles |-> articles, countArticles |-> n]

\* the request is issued when the three checks before it pass
CatalogRequested(st, keyOk) == keyOk /\ st.vehicle_id # 0 /\ st.category_id # <<>>

InvalidCategoryState(st, err) ==
    [st EXCEPT !.chat_history = st.chat_history \o <<Msg("user", InvalidCategoryPrompt)>>,
               !.retry_count = st.retry_count + 1,
               !.error = err]

\* raised = TRUE: the except handler's own _load_prompts() failed and the
\* node raised instead of returning a state
get_parts_list_node(st, promptsOk, keyOk, catalog) ==
    LET requested == CatalogRequested(st, keyOk)
        empty == catalog.articles = <<>> \/ catalog.countArticles = 0
        exception == ~requested \/ catalog.kind = "raise" \/ (empty /\ ~promptsOk)
    IN IF exception
       THEN IF promptsOk
            THEN [raised |-> FALSE, requested |-> requested,
                  state |-> InvalidCategoryState(st, "API_ERROR")]
            ELSE [raised |-> TRUE, requested |-> requested, state |-> st]
       ELSE IF empty
            THEN [raised |-> FALSE, requested |-> TRUE,
                  state |-> InvalidCategoryState(st, "API_UNAVAILABLE")]
       ELSE [raised |-> FALSE, requested |-> TRUE,
             state |-> [st EXCEPT !.parts_list = catalog.articles, !.error = ""]]

\* parts_agent.should_retry
MaxRetries == 3

\* mutants of should_retry: a cap two retries later; one retry later; a
\* cap one retry earlier; no retry after an empty list; no retry after API_ERROR
should_retry_late_cap(st) ==
    IF st.error \in {"API_UNAVAILABLE", "API_ERROR"}
    THEN IF st.retry_count >= MaxRetries + 2 THEN "end" ELSE "infer_category"
    ELSE "match_part"

should_retry_cap_four(st) ==
    IF st.error \in {"API_UNAVAILABLE", "API_ERROR"}
    THEN IF st.retry_count >= MaxRetries + 1 THEN "end" ELSE "infer_category"
    ELSE "match_part"

should_retry_early_end(st) ==
    IF st.error \in {"API_UNAVAILABLE", "API_ERROR"}
    THEN IF st.retry_count >= MaxRetries - 1 THEN "end" ELSE "infer_category"
    ELSE "match_part"

should_retry_empty_proceeds(st) ==
    IF st.error \in {"API_ERROR"}
    THEN IF st.retry_count >= MaxRetries THEN "end" ELSE "infer_category"
    ELSE "match_part"

should_retry_only_empty(st) ==
    IF st.error \in {"API_UNAVAILABLE"}
    THEN IF st.retry_count >= MaxRetries THEN "end" ELSE "infer_category"
    ELSE "match_part"

should_retry(st) ==
    IF st.error \in {"API_UNAVAILABLE", "API_ERROR"}
    THEN IF st.retry_count >= MaxRetries THEN "end" ELSE "infer_category"
    ELSE "match_part"

\* ---------------------------------------------------------- node match_part
\* mutant of _extract_parts: a list instead of a set, duplicates kept
_extract_parts_duplicates(parts_list) ==
    LET named == SelectSeq(parts_list, LAMBDA a : a.articleProductName # <<>>)
    IN [i \in 1..Len(named) |-> named[i].articleProductName]

_extract_parts(parts_list) ==
    Sorted({parts_list[i].articleProductName : i \in
              {j \in 1..Len(parts_list) : parts_list[j].articleProductName # <<>>}})

\* mutant of match_part_node: the answer is accepted without looking it up
\* among the candidates
match_part_node_unvalidated(st, promptsOk, reply) ==
    LET unique_parts == Sorted({st.parts_list[i].articleProductName : i \in
                                  {j \in 1..Len(st.parts_list) :
                                      st.parts_list[j].articleProductName # <<>>}})
        replacement == _parse_xml_tag(reply.text, "replacement")
        error == [st EXCEPT !.result = ErrorResult("Part matching failed"),
                            !.error = "Part matching failed"]
    IN IF unique_parts = <<>>
       THEN [state |-> [st EXCEPT !.result = NoMatchResult("No parts found in the category"),
                                  !.error = ""],
             called |-> FALSE]
       ELSE IF Len(unique_parts) = 1
       THEN [state |-> [st EXCEPT !.result = SuccessResult(unique_parts[1], st.category_id),
                                  !.error = ""],
             called |-> FALSE]
       ELSE IF ~promptsOk THEN [state |-> error, called |-> FALSE]
       ELSE IF reply.kind = "raise" \/ ~replacement.ok THEN [state |-> error, called |-> TRUE]
       ELSE IF replacement.val = <<>>
       THEN [state |-> [st EXCEPT !.result = NoMatchResult("No suitable part found in the category"),
                                  !.error = ""],
             called |-> TRUE]
       ELSE [state |-> [st EXCEPT !.result = SuccessResult(Strip(replacement.val), st.category_id),
                                  !.error = ""],
             called |-> TRUE]

match_part_node(st, promptsOk, reply) ==
    LET unique_parts == _extract_parts(st.parts_list)
        replacement == _parse_xml_tag(reply.text, "replacement")
        replacement_lower == Lower(Strip(replacement.val))
        unique_parts_lower == {Lower(unique_parts[i]) : i \in 1..Len(unique_parts)}
        error == [st EXCEPT !.result = ErrorResult("Part matching failed"),
                            !.error = "Part matching failed"]
    IN IF unique_parts = <<>>
       THEN [state |-> [st EXCEPT !.result = NoMatchResult("No parts found in the category"),
                                  !.error = ""],
             called |-> FALSE]
       ELSE IF Len(unique_parts) = 1
       THEN [state |-> [st EXCEPT !.result = SuccessResult(unique_parts[1], st.category_id),
                                  !.error = ""],
             called |-> FALSE]
       ELSE IF ~promptsOk THEN [state |-> error, called |-> FALSE]
       ELSE IF reply.kind = "raise" \/ ~replacement.ok THEN [state |-> error, called |-> TRUE]
       ELSE IF replacement.val = <<>> \/ replacement_lower \notin unique_parts_lower
       THEN [state |-> [st EXCEPT !.result = NoMatchResult("No suitable part found in the category"),
                                  !.error = ""],
             called |-> TRUE]
       ELSE [state |-> [st EXCEPT !.result = SuccessResult(Strip(replacement.val), st.category_id),
                                  !.error = ""],
             called |-> TRUE]

\* the messages match_part_node sends when it calls the model
MatchMessages(st) ==
    <<Msg("system", SystemPrompt), Msg("user", MatchPrompt(_extract_parts(st.parts_list)))>>

\* ---------------------------------------------------- node get_part_details
\* outcome of the article-complete-details request: an exception, or the
\* 'article' record; an oemDisplayNo of "" stands for a missing or empty one
RaiseDetail == [kind |-> "raise", oemNo |-> <<>>, s3image |-> ""]

DetailData(oemNo, s3image) == [kind |-> "data", oemNo |-> oemNo, s3image |-> s3image]

\* mutant of PartDetailsScan: the scan goes on after the first entry with
\* OEM numbers
RECURSIVE PartDetailsScan_no_stop(_, _, _, _, _)
PartDetailsScan_no_stop(parts_list, part_name, details, i, reqs) ==
    IF i > Len(parts_list) THEN [kind |-> "none", oem_numbers |-> <<>>, s3image_uri |-> "",
                                 requests |-> reqs]
    ELSE LET article == parts_list[i]
             d == details[i]
             oem_numbers == SelectSeq(d.oemNo, LAMBDA o : o # "")
             rest == PartDetailsScan_no_stop(parts_list, part_name, details, i + 1,
                                             Append(reqs, i))
         IN IF Lower(Strip(article.articleProductName)) # Lower(Strip(part_name))
               \/ article.articleId = 0
            THEN PartDetailsScan_no_stop(parts_list, part_name, details, i + 1, reqs)
            ELSE IF d.kind = "raise"
            THEN [kind |-> "raise", oem_numbers |-> <<>>, s3image_uri |-> "",
                  requests |-> Append(reqs, i)]
            ELSE IF oem_numbers # <<>>
            THEN [kind |-> "found", oem_numbers |-> oem_numbers, s3image_uri |-> d.s3image,
                  requests |-> rest.requests]
            ELSE rest

\* the for loop of get_part_details_node from entry i on; reqs are the
\* positions of the entries whose details were requested so far
RECURSIVE PartDetailsScan(_, _, _, _, _)
PartDetailsScan(parts_list, part_name, details, i, reqs) ==
    IF i > Len(parts_list) THEN [kind |-> "none", oem_numbers |-> <<>>, s3image_uri |-> "",
                                 requests |-> reqs]
    ELSE LET article == parts_list[i]
             d == details[i]
             oem_numbers == SelectSeq(d.oemNo, LAMBDA o : o # "")
         IN IF Lower(Strip(article.articleProductName)) # Lower(Strip(part_name))
               \/ article.articleId = 0
            THEN PartDetailsScan(parts_list, part_name, details, i + 1, reqs)
            ELSE IF d.kind = "raise"
            THEN [kind |-> "raise", oem_numbers |-> <<>>, s3image_uri |-> "",
                  requests |-> Append(reqs, i)]
            ELSE IF oem_numbers # <<>>
            THEN [kind |-> "found", oem_numbers |-> oem_numbers, s3image_uri |-> d.s3image,
                  requests |-> Append(reqs, i)]
            ELSE PartDetailsScan(parts_list, part_name, details, i + 1,
                                 Append(reqs, i))

get_part_details_node_no_name_check(st, keyOk, details) ==
    LET part_name == IF "part_name" \in st.result.keys THEN st.result.part_name ELSE <<>>
        scan == PartDetailsScan(st.parts_list, part_name, details, 1, <<>>)
        failed == [st EXCEPT !.oem_numbers = <<>>, !.s3image_uri = "",
                             !.error = "Failed to get part details"]
    IN IF ~keyOk THEN [state |-> failed, requests |-> <<>>]
       ELSE IF st.country_filter_id = 0
       THEN [state |-> [st EXCEPT !.oem_numbers = <<>>,
                                  !.error = "country_filter_id not provided"],
             requests |-> <<>>]
       ELSE IF scan.kind = "raise" THEN [state |-> failed, requests |-> scan.requests]
       ELSE [state |-> [st EXCEPT !.oem_numbers = scan.oem_numbers,
                                  !.s3image_uri = scan.s3image_uri,
                                  !.error = ""],
             requests |-> scan.requests]

get_part_details_node(st, keyOk, details) ==
    LET part_name == IF "part_name" \in st.result.keys THEN st.result.part_name ELSE <<>>
        scan == PartDetailsScan(st.parts_list, part_name, details, 1, <<>>)
        failed == [st EXCEPT !.oem_numbers = <<>>, !.s3image_uri = "",
                             !.error = "Failed to get part details"]
    IN IF ~keyOk THEN [state |-> failed, requests |-> <<>>]
       ELSE IF part_name = <<>>
       THEN [state |-> [st EXCEPT !.oem_numbers = <<>>,
                                  !.error = "No part name found in result"],
             requests |-> <<>>]
       ELSE IF st.country_filter_id = 0
       THEN [state |-> [st EXCEPT !.oem_numbers = <<>>,
                                  !.error = "country_filter_id not provided"],
             requests |-> <<>>]
       ELSE IF scan.kind = "raise" THEN [state |-> failed, requests |-> scan.requests]
       ELSE [state |-> [st EXCEPT !.oem_numbers = scan.oem_numbers,
                                  !.s3image_uri = scan.s3image_uri,
                                  !.error = ""],
             requests |-> scan.requests]

\* ------------------------------------------------------------ run_workflow
\* retry count at which run_workflow reports MAX_RETRIES
ReportRetries == 3

ReturnRecord(res, retry_count, oem_numbers, s3image_uri) ==
    [keys |-> res.keys, status |-> res.status, message |-> res.message,
     part_name |-> res.part_name, category_id |-> res.category_id,
     retry_count |-> retry_count, oem_numbers |-> oem_numbers, s3image_uri |-> s3image_uri]

\* mutant of run_workflow_return: the max-retries check is missing
run_workflow_return_unchecked(final_state, raised) ==
    IF raised
    THEN ReturnRecord([ErrorResult("Workflow execution failed")
                          EXCEPT !.keys = {"status", "message", "retry_count"}], 0, <<>>, "")
    ELSE ReturnRecord([final_state.result EXCEPT !.keys = @ \cup {"retry_count", "oem_numbers",
                                                                 "s3image_uri"}],
                      final_state.retry_count, final_state.oem_numbers,
                      final_state.s3image_uri)

\* what run_workflow returns for the final state of app.invoke, or for the
\* exception app.invoke raised
run_workflow_return(final_state, raised) ==
    IF raised
    THEN ReturnRecord([ErrorResult("Workflow execution failed")
                          EXCEPT !.keys = {"status", "message", "retry_count"}], 0, <<>>, "")
    ELSE IF final_state.retry_count >= ReportRetries /\ final_state.result.keys = {}
    THEN ReturnRecord([EmptyResult EXCEPT !.keys = {"status", "message", "retry_count",
                                                   "oem_numbers", "s3image_uri"},
                                          !.status = "MAX_RETRIES",
                                          !.message = "Unable to find valid category after 3 attempts"],
                      final_state.retry_count, <<>>, "")
    ELSE ReturnRecord([final_state.result EXCEPT !.keys = @ \cup {"retry_count", "oem_numbers",
                                                                 "s3image_uri"}],
                      final_state.retry_count, final_state.oem_numbers,
                      final_state.s3image_uri)

\* ------------------------------------------------------------------- state
VARIABLES
    \* one run of run_workflow
    state,            \* the AgentState the graph carries
    env,              \* prompts.json loadable, RAPIDAPI_KEY set
    pc,               \* node to run next, "END", "raised" or "returned"
    trace,            \* nodes executed so far, in order
    requested,        \* category ids of the catalog requests issued
    llm_calls,        \* model calls made: node and messages sent
    detail_requests,  \* article ids of the detail requests issued
    detail_positions, \* positions in parts_list of the entries requested
    detail_records,   \* the catalog's answer to a detail request for each entry
    loopbacks,        \* times should_retry routed back to infer_category
    ret,              \* the record run_workflow returned
    \* match_part_node applied to one state and one model reply
    mp_state, mp_prompts, mp_reply, mp_out, mp_pc,
    \* one worker-pool batch
    pool_kind, pool_inputs, pool_workers, pool_task, pool_collected, pool_results, pool_pc

wfVars == <<state, env, pc, trace, requested, llm_calls, detail_requests, detail_positions,
           detail_records, loopbacks, ret>>

mpVars == <<mp_state, mp_prompts, mp_reply, mp_out, mp_pc>>

poolVars == <<pool_kind, pool_inputs, pool_workers, pool_task, pool_collected, pool_results, pool_pc>>

\* one process making model calls from several workflow instances
VARIABLES failed_models, im_model, im_retries, im_events, im_tried, im_pc

imVars == <<failed_models, im_model, im_retries, im_events, im_tried, im_pc>>

\* the response cache and the tasks calling _cached_api_request
VARIABLES cache, now, cr_env, cr_task, cr_last, cr_calls, cr_ticks

cacheVars == <<cache, now, cr_env, cr_task, cr_last, cr_calls, cr_ticks>>

\* one request to lookup_parts.lambda_handler, or one call of lookup_parts.main
VARIABLES lh_entry, lh_event, lh_secrets, lh_pc, lh_response, lh_submitted

lhVars == <<lh_entry, lh_event, lh_secrets, lh_pc, lh_response, lh_submitted>>

\* one call of reverse_image_search.main, and the S3 bucket
VARIABLES ris_cleanup, ris_query, ris_pc, ris_s3_key, ris_failed, ris_response, ris_results,
          s3_bucket

risVars == <<ris_cleanup, ris_query, ris_pc, ris_s3_key, ris_failed, ris_response, ris_results,
             s3_bucket>>

\* one call of lookup_parts.get_categories_md
VARIABLES cat_tree, cat_next, cat_lines, cat_result, cat_pc

catVars == <<cat_tree, cat_next, cat_lines, cat_result, cat_pc>>

\* the state outside the workflow run, match_part_node and the pools
extVars == <<imVars, cacheVars, lhVars, risVars, catVars>>

vars == <<wfVars, mpVars, poolVars, extVars>>

\* ------------------------------------------- inputs of the workflow's calls
CategoryReply(id) == <<"<category>", "B", "</category>",
                       "<subcategory_id>">> \o id \o <<"</subcategory_id>">>

\* the model's answers to the category prompt: an exception, two different
\* categories, an id wrapped in blanks, an answer without the id tag
InferReplies == {RaiseReply,
                 TextReply(CategoryReply(<<"1">>)),
                 TextReply(CategoryReply(<<" ", "2", " ">>)),
                 TextReply(<<"<category>", "B", "</category>">>)}

\* the article lists the catalog answers with
WfLists == {<<>>,
            <<Article(<<"a">>, 1), Article(<<"a">>, 2)>>,
            <<Article(<<"a">>, 1), Article(<<"b">>, 2)>>,
            <<Article(<<"A">>, 0), Article(<<"a">>, 2)>>,
            <<Article(<<>>, 1)>>}

CatalogOutcomes == {RaiseCatalog}
                   \cup {CatalogData(l, n) : l \in WfLists, n \in {0, 1, 2}}

\* the model's answers to the disambiguation prompt: an exception, or any
\* text of at most MaxRespLen tokens
Tokens == Chars \cup {OpenTag("replacement"), CloseTag("replacement")}

MatchReplies == {RaiseReply} \cup {TextReply(t) : t \in SeqsUpTo(Tokens, MaxRespLen)}

DetailOutcomes == {RaiseDetail, DetailData(<<>>, ""), DetailData(<<"">>, "s3://a"),
                   DetailData(<<"OEM1", "">>, "s3://a"), DetailData(<<"OEM2">>, "")}

NoReturn == ReturnRecord(EmptyResult, 0, <<>>, "")

\* --------------------------------------------------- run_workflow: actions
WfInit ==
    /\ \E v \in {0, 1}, c \in {0, 1} : state = InitialState("pad", v, c)
    /\ env \in [promptsOk : BOOLEAN, keyOk : BOOLEAN]
    /\ pc = "infer_category"
    /\ trace = <<>>
    /\ requested = <<>>
    /\ llm_calls = <<>>
    /\ detail_requests = <<>>
    /\ detail_positions = <<>>
    /\ detail_records = <<>>
    /\ loopbacks = 0
    /\ ret = NoReturn

WfIdle ==
    /\ state = InitialState("pad", 1, 1)
    /\ env = [promptsOk |-> TRUE, keyOk |-> TRUE]
    /\ pc = "idle"
    /\ trace = <<>>
    /\ requested = <<>>
    /\ llm_calls = <<>>
    /\ detail_requests = <<>>
    /\ detail_positions = <<>>
    /\ detail_records = <<>>
    /\ loopbacks = 0
    /\ ret = NoReturn

InferCategory ==
    /\ pc = "infer_category"
    /\ \E reply \in InferReplies :
         LET r == infer_category_node(state, env.promptsOk, reply)
         IN /\ state' = r.state
            /\ llm_calls' = IF r.called
                            THEN Append(llm_calls, [node |-> "infer_category",
                                                    messages |-> InferMessages(state)])
                            ELSE llm_calls
    /\ trace' = Append(trace, "infer_category")
    /\ pc' = "get_parts_list"
    /\ UNCHANGED <<env, requested, detail_requests, detail_positions, detail_records, loopbacks, ret,
                 mpVars, poolVars, extVars>>

\* the node and the conditional edge after it
GetPartsList ==
    /\ pc = "get_parts_list"
    /\ \E catalog \in CatalogOutcomes :
         LET r == get_parts_list_node(state, env.promptsOk, env.keyOk, catalog)
             route == should_retry(r.state)
         IN /\ state' = r.state
            /\ requested' = IF r.requested THEN Append(requested, state.category_id)
                            ELSE requested
            /\ pc' = IF r.raised THEN "raised"
                     ELSE IF route = "end" THEN "END" ELSE route
            /\ loopbacks' = IF ~r.raised /\ route = "infer_category"
                            THEN loopbacks + 1 ELSE loopbacks
    /\ trace' = Append(trace, "get_parts_list")
    /\ UNCHANGED <<env, llm_calls, detail_requests, detail_positions, detail_records, ret,
                 mpVars, poolVars, extVars>>

MatchPart ==
    /\ pc = "match_part"
    /\ \E reply \in MatchReplies :
         LET r == match_part_node(state, env.promptsOk, reply)
         IN /\ state' = r.state
            /\ llm_calls' = IF r.called
                            THEN Append(llm_calls, [node |-> "match_part",
                                                    messages |-> MatchMessages(state)])
                            ELSE llm_calls
    /\ trace' = Append(trace, "match_part")
    /\ pc' = "get_part_details"
    /\ UNCHANGED <<env, requested, detail_requests, detail_positions, detail_records, loopbacks, ret,
                 mpVars, poolVars, extVars>>

GetPartDetails ==
    /\ pc = "get_part_details"
    /\ \E details \in [1..Len(state.parts_list) -> DetailOutcomes] :
         LET r == get_part_details_node(state, env.keyOk, details)
         IN /\ state' = r.state
            /\ detail_requests' = [k \in 1..Len(r.requests) |->
                                      state.parts_list[r.requests[k]].articleId]
            /\ detail_positions' = r.requests
            /\ detail_records' = details
    /\ trace' = Append(trace, "get_part_details")
    /\ pc' = "END"
    /\ UNCHANGED <<env, requested, llm_calls, loopbacks, ret, mpVars, poolVars, extVars>>

\* run_workflow's code after app.invoke
Return ==
    /\ pc \in {"END", "raised"}
    /\ ret' = run_workflow_return(state, pc = "raised")
    /\ pc' = "returned"
    /\ UNCHANGED <<state, env, trace, requested, llm_calls, detail_requests, detail_positions,
                   detail_records, loopbacks,
                   mpVars, poolVars, extVars>>

WfNext == InferCategory \/ GetPartsList \/ MatchPart \/ GetPartDetails \/ Return

\* --------------------------------------------- match_part_node on its own
\* article names: none, one letter in both cases, another letter, a blank,
\* a name with a leading blank
Names == {<<>>, <<"a">>, <<"A">>, <<"b">>, <<" ">>, <<" ", "a">>}

\* the non-empty article lists get_parts_list_node can store
MpLists == {l \in SeqsUpTo({Article(n, 1) : n \in Names}, MaxParts) : l # <<>>}

MpNone == [state |-> InitialState("pad", 1, 1), called |-> FALSE]

MpInit ==
    /\ \E l \in MpLists :
         mp_state = [InitialState("pad", 1, 1) EXCEPT !.category_id = <<"1">>,
                                                      !.parts_list = l]
    /\ mp_prompts \in BOOLEAN
    /\ mp_reply \in MatchReplies
    /\ mp_out = MpNone
    /\ mp_pc = "ready"

MpIdle ==
    /\ mp_state = InitialState("pad", 1, 1)
    /\ mp_prompts = TRUE
    /\ mp_reply = RaiseReply
    /\ mp_out = MpNone
    /\ mp_pc = "idle"

MpMatch ==
    /\ mp_pc = "ready"
    /\ mp_out' = match_part_node(mp_state, mp_prompts, mp_reply)
    /\ mp_pc' = "done"
    /\ UNCHANGED <<mp_state, mp_prompts, mp_reply, wfVars, poolVars, extVars>>

MpNext == MpMatch

\* ----------------------------------------------- openai_client.invoke_model
default_model == "gpt-4.1"

models == <<"gpt-5", "gpt-5-mini", "gpt-4.1", "gpt-4.1-mini", "gpt-4o", "gpt-4o-mini">>

\* invoke_model gives up when retries exceeds this
MaxModelRetries == 5

\* the first of models that is not in failed, "None" when there is none
get_another_model(failed) ==
    LET free == {i \in 1..Len(models) : \A k \in 1..Len(failed) : failed[k] # models[i]}
    IN IF free = {} THEN "None" ELSE models[CHOOSE i \in free : \A j \in free : i <= j]

\* the workflow instances (threads of lookup_parts.main, or successive runs)
\* of one process; each makes one call invoke_model(messages, "")
Instances == {1, 2}

\* what chat.completions.create does: returns, or raises with or without
\* "rate limit reached" in the message
ApiEvents == {"response", "rate_limit", "error"}

\* lines 38-52 and 58-59 of one invocation: the API call, and in the except
\* branch the append to the list the parameter failed_models is bound to;
\* the default list is one object per process and no caller passes another
invoke_model(failed, retries, model_id, event) ==
    IF event = "response"
    THEN [failed_models |-> failed, retries |-> retries, pc |-> "returned"]
    ELSE IF event = "rate_limit"
    THEN [failed_models |-> Append(failed, model_id), retries |-> retries,
          pc |-> "choosing"]
    ELSE [failed_models |-> failed, retries |-> retries + 1, pc |-> "sleeping"]

\* lines 53-59: the choice of another model, on the list as it is by then
\* (the list only grows, so the loop of get_another_model returns what it
\* would return if it ran at the moment of its last test)
invoke_model_fallback(failed, retries) ==
    LET model_id == get_another_model(failed)
    IN [model_id |-> model_id,
        retries |-> IF model_id = "None" THEN retries ELSE retries + 1,
        pc |-> IF model_id = "None" THEN "APILimitExceededError" ELSE "sleeping"]

\* lines 61-63 and 29: after the sleep, the entry of the recursive invocation
invoke_model_entry(retries) ==
    IF retries > MaxModelRetries THEN "ValueError" ELSE "calling"

ImInit ==
    /\ failed_models = <<>>
    /\ im_model = [i \in Instances |-> default_model]
    /\ im_retries = [i \in Instances |-> 0]
    /\ im_events = [i \in Instances |-> <<>>]
    /\ im_tried = [i \in Instances |-> <<default_model>>]
    /\ im_pc = [i \in Instances |-> "calling"]

ImIdle ==
    /\ failed_models = <<>>
    /\ im_model = [i \in Instances |-> default_model]
    /\ im_retries = [i \in Instances |-> 0]
    /\ im_events = [i \in Instances |-> <<>>]
    /\ im_tried = [i \in Instances |-> <<default_model>>]
    /\ im_pc = [i \in Instances |-> "idle"]

\* instance i makes the API call of its current invocation
ImInvoke ==
    /\ \E i \in Instances, event \in ApiEvents :
         /\ im_pc[i] = "calling"
         /\ LET r == invoke_model(failed_models, im_retries[i], im_model[i], event)
            IN /\ failed_models' = r.failed_models
               /\ im_retries' = [im_retries EXCEPT ![i] = r.retries]
               /\ im_events' = [im_events EXCEPT ![i] = Append(@, event)]
               /\ im_tried' = [im_tried EXCEPT ![i] =
                                  IF event = "error" THEN Append(@, im_model[i]) ELSE @]
               /\ im_pc' = [im_pc EXCEPT ![i] = r.pc]
    /\ UNCHANGED <<im_model, wfVars, mpVars, poolVars, catVars, cacheVars, lhVars, risVars>>

\* instance i, past its append, picks another model; no lock is held
\* between the two, so other instances may have appended meanwhile
ImFallback ==
    /\ \E i \in Instances :
         /\ im_pc[i] = "choosing"
         /\ LET r == invoke_model_fallback(failed_models, im_retries[i])
            IN /\ im_model' = [im_model EXCEPT ![i] = r.model_id]
               /\ im_retries' = [im_retries EXCEPT ![i] = r.retries]
               /\ im_tried' = [im_tried EXCEPT ![i] = Append(@, r.model_id)]
               /\ im_pc' = [im_pc EXCEPT ![i] = r.pc]
    /\ UNCHANGED <<failed_models, im_events,
                   wfVars, mpVars, poolVars, catVars, cacheVars, lhVars, risVars>>

\* instance i wakes up from time.sleep and enters the recursive invocation
ImRetry ==
    /\ \E i \in Instances :
         /\ im_pc[i] = "sleeping"
         /\ im_pc' = [im_pc EXCEPT ![i] = invoke_model_entry(im_retries[i])]
    /\ UNCHANGED <<failed_models, im_model, im_retries, im_events, im_tried,
                   wfVars, mpVars, poolVars, catVars, cacheVars, lhVars, risVars>>

ImNext == ImInvoke \/ ImFallback \/ ImRetry

\* --------------------------------------------- restapi._cached_api_request
\* bounds: calls made in one process, and times the clock is seen to move
MaxCalls == 2
MaxTicks == 1

\* default of the parameter cache_ttl_hours, in hours
cache_ttl_hours == 24

\* the clock counts hours; between two steps seen here it moves by a whole
\* time-to-live, so that an entry is read before its ttl, at its ttl and
\* after it
ClockSteps == {cache_ttl_hours}

\* md5 of url + json.dumps(sorted(headers.items())): one key per pair
cache_key(url, headers) == <<url, headers>>

\* the requests made: one URL under two sets of headers
CacheKeys == {cache_key("u", "h"), cache_key("u", "g")}

\* an item of the DynamoDB table; wellformed is FALSE for an item without
\* the fields the reading code uses
NoItem == [present |-> FALSE, wellformed |-> TRUE, status_code |-> 0, content |-> "", ttl |-> 0]

CacheItem(status_code, content, ttl) ==
    [present |-> TRUE, wellformed |-> TRUE, status_code |-> status_code,
     content |-> content, ttl |-> ttl]

NoResponse == [status_code |-> 0, content |-> ""]

\* what requests.get and raise_for_status do: a response that passes
\* (2xx, 3xx), or an exception (4xx, 5xx, no connection)
RemoteOutcomes == {[kind |-> "response", status_code |-> 200, content |-> "x"],
                   [kind |-> "response", status_code |-> 200, content |-> "y"],
                   [kind |-> "response", status_code |-> 304, content |-> ""],
                   [kind |-> "raise", status_code |-> 500, content |-> ""]}

CacheTasks == {1, 2}

IdleCall == [pc |-> "idle", key |-> cache_key("u", "h"), read |-> "", remote |-> FALSE,
             wrote |-> FALSE, table |-> FALSE, response |-> NoResponse,
             got |-> NoItem, ttl |-> 0]

\* what the latest concluded cache read met: the task that made it (0
\* before the first), what DynamoDB did ("unused" without a table), the
\* item the configured table held for the key when get_item answered (or
\* when DynamoDB failed), and the time of the ttl test (or of the failure)
NoRead == [task |-> 0, dynamo |-> "unused", stored |-> NoItem, at |-> 0]

\* lines 25-40: the key, the table name, the DynamoDB resource; a call with
\* a table goes on to wait in get_item
CachedBegin(call, key, tableSet, initOk) ==
    LET begun == [call EXCEPT !.key = key, !.read = "", !.remote = FALSE, !.wrote = FALSE,
                              !.response = NoResponse, !.got = NoItem, !.ttl = 0]
    IN IF ~tableSet
       THEN [begun EXCEPT !.pc = "requesting", !.read = "no_table", !.table = FALSE]
       ELSE IF ~initOk
       THEN [begun EXCEPT !.pc = "requesting", !.read = "init_failed", !.table = FALSE]
       ELSE [begun EXCEPT !.pc = "getting", !.table = TRUE]

\* lines 44-47: get_item answers with the item the table holds at that
\* moment, or raises
CachedGet(call, getOk, item) ==
    IF ~getOk THEN [call EXCEPT !.pc = "requesting", !.read = "read_failed"]
    ELSE IF ~item.present THEN [call EXCEPT !.pc = "requesting", !.read = "miss"]
    ELSE [call EXCEPT !.pc = "checking", !.got = item]

\* lines 50-62: the clock is read and the ttl of the item got is tested.
\* An item that is not well formed lacks status_code, content or headers,
\* which are read only after the ttl test passed (lines 51-58)
CachedRead_nonstrict(call, time) ==
    LET item == call.got
        tested == [call EXCEPT !.got = NoItem]
    IN IF ~(time <= item.ttl)
       THEN [tested EXCEPT !.pc = "requesting", !.read = "expired"]
       ELSE IF ~item.wellformed
       THEN [tested EXCEPT !.pc = "requesting", !.read = "read_failed"]
       ELSE [tested EXCEPT !.pc = "returned", !.read = "hit",
                           !.response = [status_code |-> item.status_code,
                                         content |-> item.content]]

CachedRead(call, time) ==
    LET item == call.got
        tested == [call EXCEPT !.got = NoItem]
    IN IF ~(time < item.ttl)
       THEN [tested EXCEPT !.pc = "requesting", !.read = "expired"]
       ELSE IF ~item.wellformed
       THEN [tested EXCEPT !.pc = "requesting", !.read = "read_failed"]
       ELSE [tested EXCEPT !.pc = "returned", !.read = "hit",
                           !.response = [status_code |-> item.status_code,
                                         content |-> item.content]]

\* lines 33-35 and 72-78: the remote request
CachedRequest_cache_all(call, outcome) ==
    LET response == [status_code |-> outcome.status_code, content |-> outcome.content]
    IN IF outcome.kind = "raise" THEN [call EXCEPT !.pc = "raised", !.remote = TRUE]
       ELSE IF call.read = "no_table"
       THEN [call EXCEPT !.pc = "returned", !.remote = TRUE, !.response = response]
       ELSE [call EXCEPT !.pc = "stamping", !.remote = TRUE, !.response = response]

CachedRequest(call, outcome) ==
    LET response == [status_code |-> outcome.status_code, content |-> outcome.content]
    IN IF outcome.kind = "raise" THEN [call EXCEPT !.pc = "raised", !.remote = TRUE]
       ELSE IF call.read = "no_table"
       THEN [call EXCEPT !.pc = "returned", !.remote = TRUE, !.response = response]
       ELSE IF 200 <= outcome.status_code /\ outcome.status_code < 300
       THEN [call EXCEPT !.pc = "stamping", !.remote = TRUE, !.response = response]
       ELSE [call EXCEPT !.pc = "returned", !.remote = TRUE, !.response = response]

\* line 81: the clock is read and the ttl of the new item computed
CachedStamp(call, time) ==
    [call EXCEPT !.pc = "writing", !.ttl = time + cache_ttl_hours]

\* lines 84-101: put_item with the ttl computed before; it fails when the
\* table was never bound or when DynamoDB refuses
CachedWrite_put_raises(call, putOk) ==
    IF call.table /\ putOk
    THEN [call |-> [call EXCEPT !.pc = "returned", !.wrote = TRUE, !.ttl = 0],
          item |-> CacheItem(call.response.status_code, call.response.content, call.ttl),
          written |-> TRUE]
    ELSE [call |-> [call EXCEPT !.pc = "raised", !.ttl = 0],
          item |-> NoItem, written |-> FALSE]

CachedWrite(call, putOk) ==
    IF call.table /\ putOk
    THEN [call |-> [call EXCEPT !.pc = "returned", !.wrote = TRUE, !.ttl = 0],
          item |-> CacheItem(call.response.status_code, call.response.content, call.ttl),
          written |-> TRUE]
    ELSE [call |-> [call EXCEPT !.pc = "returned", !.ttl = 0],
          item |-> NoItem, written |-> FALSE]

\* the table outlives the process: at its start the item of one key is
\* absent, or its ttl is one time-to-live away and it is either an item
\* without the response fields or a stored response
InitialItems == {NoItem,
                 [NoItem EXCEPT !.present = TRUE, !.wellformed = FALSE,
                                !.ttl = cache_ttl_hours],
                 CacheItem(200, "x", cache_ttl_hours)}

CacheInit ==
    /\ \E item \in InitialItems :
         cache = [k \in CacheKeys |-> IF k = cache_key("u", "h") THEN item ELSE NoItem]
    /\ now = 0
    /\ cr_env \in BOOLEAN
    /\ cr_task = [t \in CacheTasks |-> IdleCall]
    /\ cr_last = NoRead
    /\ cr_calls = 0
    /\ cr_ticks = 0

CacheIdle ==
    /\ cache = [k \in CacheKeys |-> NoItem]
    /\ now = 0
    /\ cr_env = TRUE
    /\ cr_task = [t \in CacheTasks |-> IdleCall]
    /\ cr_last = NoRead
    /\ cr_calls = 0
    /\ cr_ticks = 0

\* a task calls _cached_api_request and gets as far as the call of
\* get_item, or, without a usable table, as far as the remote request
CrCall ==
    /\ cr_calls < MaxCalls
    /\ \E t \in CacheTasks, key \in CacheKeys, initOk \in BOOLEAN :
         /\ cr_task[t].pc \in {"idle", "returned", "raised"}
         /\ LET c == CachedBegin(cr_task[t], key, cr_env, initOk)
            IN /\ cr_task' = [cr_task EXCEPT ![t] = c]
               /\ cr_last' = IF c.pc = "getting" THEN cr_last
                             ELSE [task |-> t,
                                   dynamo |-> IF cr_env THEN "init_failed" ELSE "unused",
                                   stored |-> IF cr_env THEN cache[key] ELSE NoItem,
                                   at |-> now]
    /\ cr_calls' = cr_calls + 1
    /\ UNCHANGED <<cache, now, cr_env, cr_ticks, wfVars, mpVars, poolVars, catVars, imVars, lhVars, risVars>>

\* get_item of a task answers; other tasks' writes and the clock may have
\* come in since the call began
CrGet ==
    /\ \E t \in CacheTasks, getOk \in BOOLEAN :
         /\ cr_task[t].pc = "getting"
         /\ LET c == CachedGet(cr_task[t], getOk, cache[cr_task[t].key])
            IN /\ cr_task' = [cr_task EXCEPT ![t] = c]
               /\ cr_last' = IF c.pc = "checking" THEN cr_last
                             ELSE [task |-> t,
                                   dynamo |-> IF getOk THEN "ok" ELSE "read_failed",
                                   stored |-> cache[c.key],
                                   at |-> now]
    /\ UNCHANGED <<cache, now, cr_env, cr_calls, cr_ticks, wfVars, mpVars, poolVars, catVars, imVars, lhVars, risVars>>

\* a task reads the clock and tests the item it got
CrCheck ==
    /\ \E t \in CacheTasks :
         /\ cr_task[t].pc = "checking"
         /\ cr_task' = [cr_task EXCEPT ![t] = CachedRead(@, now)]
         /\ cr_last' = [task |-> t, dynamo |-> "ok", stored |-> cr_task[t].got, at |-> now]
    /\ UNCHANGED <<cache, now, cr_env, cr_calls, cr_ticks, wfVars, mpVars, poolVars, catVars, imVars, lhVars, risVars>>

CrRequest ==
    /\ \E t \in CacheTasks, outcome \in RemoteOutcomes :
         /\ cr_task[t].pc = "requesting"
         /\ cr_task' = [cr_task EXCEPT ![t] = CachedRequest(@, outcome)]
    /\ UNCHANGED <<cache, now, cr_env, cr_last, cr_calls, cr_ticks, wfVars, mpVars, poolVars, catVars, imVars, lhVars, risVars>>

\* a task reads the clock for the ttl of the item it is about to write
CrStamp ==
    /\ \E t \in CacheTasks :
         /\ cr_task[t].pc = "stamping"
         /\ cr_task' = [cr_task EXCEPT ![t] = CachedStamp(@, now)]
    /\ UNCHANGED <<cache, now, cr_env, cr_last, cr_calls, cr_ticks, wfVars, mpVars, poolVars, catVars, imVars, lhVars, risVars>>

\* put_item of a task lands, or fails
CrWrite ==
    /\ \E t \in CacheTasks, putOk \in BOOLEAN :
         /\ cr_task[t].pc = "writing"
         /\ LET w == CachedWrite(cr_task[t], putOk)
            IN /\ cr_task' = [cr_task EXCEPT ![t] = w.call]
               /\ cache' = IF w.written THEN [cache EXCEPT ![cr_task[t].key] = w.item]
                           ELSE cache
    /\ UNCHANGED <<now, cr_env, cr_last, cr_calls, cr_ticks, wfVars, mpVars, poolVars, catVars, imVars, lhVars, risVars>>

\* time passes between two steps
CrTick ==
    /\ cr_ticks < MaxTicks
    /\ \E d \in ClockSteps : now' = now + d
    /\ cr_ticks' = cr_ticks + 1
    /\ UNCHANGED <<cache, cr_env, cr_task, cr_last, cr_calls, wfVars, mpVars, poolVars, catVars, imVars, lhVars, risVars>>

CacheNext == CrCall \/ CrGet \/ CrCheck \/ CrRequest \/ CrStamp \/ CrWrite \/ CrTick

\* ------------------------------------------ lookup_parts.lambda_handler
\* a value of the parsed body: its JSON type ("missing" when the key is
\* absent), whether Python takes it for true, the elements of a list, and
\* for a categories dictionary whether every entry is a dictionary itself
JValue(type, truthy, items, wellformed) ==
    [type |-> type, truthy |-> truthy, items |-> items, wellformed |-> wellformed]

JMissing == JValue("missing", FALSE, <<>>, TRUE)

\* vehicle_id and country_filter_id: absent, null, 0, 1, true, false, 1.5, "1"
IdValues == {JMissing, JValue("null", FALSE, <<>>, TRUE), JValue("int", FALSE, <<>>, TRUE),
             JValue("int", TRUE, <<>>, TRUE), JValue("bool", TRUE, <<>>, TRUE),
             JValue("bool", FALSE, <<>>, TRUE), JValue("float", TRUE, <<>>, TRUE),
             JValue("str", TRUE, <<>>, TRUE)}

\* categories: absent, {}, a category tree, {"a": 1}, [1], "x"
CategoriesValues == {JMissing, JValue("dict", FALSE, <<>>, TRUE),
                     JValue("dict", TRUE, <<>>, TRUE), JValue("dict", TRUE, <<>>, FALSE),
                     JValue("list", TRUE, <<>>, TRUE), JValue("str", TRUE, <<>>, TRUE)}

\* parts: absent, [], ["p"], ["p", "q"], {"a": 1}, "p"
PartsLists == {JValue("list", FALSE, <<>>, TRUE), JValue("list", TRUE, <<"p">>, TRUE),
               JValue("list", TRUE, <<"p", "q">>, TRUE)}

PartsValues == PartsLists \cup {JMissing, JValue("dict", TRUE, <<>>, TRUE),
                                JValue("str", TRUE, <<>>, TRUE)}

\* event['body']: kind is "absent" (no key), "none" (null), "invalid" (no
\* JSON text), "array" (JSON, but no object) or "object"
Event(kind, vehicle_id, country_filter_id, categories, parts) ==
    [kind |-> kind, vehicle_id |-> vehicle_id, country_filter_id |-> country_filter_id,
     categories |-> categories, parts |-> parts]

Events == {Event(k, JMissing, JMissing, JMissing, JMissing) :
               k \in {"absent", "none", "invalid", "array"}}
          \cup {Event("object", v, c, cat, parts) :
                  v \in IdValues, c \in IdValues, cat \in CategoriesValues, parts \in PartsValues}

\* isinstance(value, int): a bool is an int
IsInstanceInt(value) == value.type \in {"int", "bool"}

NoResponseYet == [statusCode |-> 0, raised |-> "", results |-> 0]

Response(statusCode, results) == [statusCode |-> statusCode, raised |-> "", results |-> results]

Raised(exception) == [statusCode |-> 0, raised |-> exception, results |-> 0]

\* lines 275-362 of lambda_handler: the response of a rejected request,
\* NoResponseYet when main is called
ValidateRequest(event, secretsOk) ==
    IF ~secretsOk \/ event.kind \in {"none", "array"} THEN Response(500, 0)
    ELSE IF event.kind = "invalid" THEN Response(400, 0)
    ELSE IF ~event.vehicle_id.truthy THEN Response(400, 0)
    ELSE IF ~IsInstanceInt(event.vehicle_id) THEN Response(400, 0)
    ELSE IF ~event.country_filter_id.truthy THEN Response(400, 0)
    ELSE IF ~IsInstanceInt(event.country_filter_id) THEN Response(400, 0)
    ELSE IF ~event.categories.truthy THEN Response(400, 0)
    ELSE IF event.categories.type # "dict" THEN Response(400, 0)
    ELSE IF ~event.parts.truthy THEN Response(400, 0)
    ELSE IF event.parts.type # "list" THEN Response(400, 0)
    ELSE NoResponseYet

\* lookup_parts.main: what it raises, the workers it submits, the results
main(parts_to_search, categories) ==
    IF ~parts_to_search.truthy THEN [raised |-> "ValueError", submitted |-> 0, results |-> 0]
    ELSE IF ~categories.wellformed
    THEN [raised |-> "AttributeError", submitted |-> 0, results |-> 0]
    ELSE [raised |-> "", submitted |-> Len(parts_to_search.items),
          results |-> Len(parts_to_search.items)]

\* lines 365-393 of lambda_handler
HandlerResponse(m) ==
    IF m.raised = "ValueError" THEN Response(400, 0)
    ELSE IF m.raised # "" THEN Response(500, 0)
    ELSE Response(200, m.results)

LhInit ==
    /\ lh_entry \in {"lambda_handler", "main"}
    /\ IF lh_entry = "lambda_handler" THEN lh_event \in Events
       ELSE lh_event \in {Event("object", JValue("int", TRUE, <<>>, TRUE),
                                JValue("int", TRUE, <<>>, TRUE), cat, parts) :
                              cat \in {c \in CategoriesValues : c.type = "dict"},
                              parts \in PartsLists}
    /\ lh_secrets \in BOOLEAN
    /\ lh_pc = lh_entry
    /\ lh_response = NoResponseYet
    /\ lh_submitted = 0

LhIdle ==
    /\ lh_entry = "lambda_handler"
    /\ lh_event = Event("absent", JMissing, JMissing, JMissing, JMissing)
    /\ lh_secrets = TRUE
    /\ lh_pc = "idle"
    /\ lh_response = NoResponseYet
    /\ lh_submitted = 0

\* lambda_handler up to its call of main
LhValidate ==
    /\ lh_pc = "lambda_handler"
    /\ LET r == ValidateRequest(lh_event, lh_secrets)
       IN /\ lh_response' = r
          /\ lh_pc' = IF r = NoResponseYet THEN "main" ELSE "returned"
    /\ UNCHANGED <<lh_entry, lh_event, lh_secrets, lh_submitted,
                   wfVars, mpVars, poolVars, catVars, imVars, cacheVars, risVars>>

\* main, and the rest of lambda_handler when it was the caller
LhMain ==
    /\ lh_pc = "main"
    /\ LET m == main(lh_event.parts, lh_event.categories)
       IN /\ lh_submitted' = m.submitted
          /\ lh_response' = IF lh_entry = "lambda_handler" THEN HandlerResponse(m)
                            ELSE IF m.raised # "" THEN Raised(m.raised)
                            ELSE Response(0, m.results)
    /\ lh_pc' = "returned"
    /\ UNCHANGED <<lh_entry, lh_event, lh_secrets, wfVars, mpVars, poolVars, catVars, imVars, cacheVars,
                   risVars>>

LhNext == LhValidate \/ LhMain

\* ------------------------------------------------------------ worker pools
PoolKinds == {"parts_search", "detected_parts", "image_download", "thumbnails", "ocr"}

\* what happens inside a task's body: the statuses run_workflow returns, a
\* plain success, or an exception
BodyEvents(kind) == IF kind = "parts_search"
                    THEN {"SUCCESS", "NO_MATCH", "ERROR", "MAX_RETRIES", "exc"}
                    ELSE IF kind = "detected_parts" THEN {"identified", "unknown", "exc"}
                    ELSE {"ok", "exc"}

\* what a future holds: a value, or the exception the task function raised
FutureValue(item, outcome) == [raised |-> FALSE, item |-> item, outcome |-> outcome]

FutureException(item) == [raised |-> TRUE, item |-> item, outcome |-> "exception"]

\* lookup_parts._search_single_part
_search_single_part(part_description, event) ==
    IF event = "exc" THEN FutureValue(part_description, "ERROR")
    ELSE FutureValue(part_description, event)

\* analyze_object._process_single_part
_process_single_part(part, event) ==
    IF event = "exc" THEN FutureValue(part, "unknown") ELSE FutureValue(part, event)

\* image_search._download_image and reverse_image_search._download_image
_download_image(image_url, event) ==
    IF event = "exc" THEN FutureValue(image_url, "None") ELSE FutureValue(image_url, "bytes")

\* analyze-assignment.process_pdf_workflow
process_pdf_workflow(doc_type, event) ==
    IF event = "exc" THEN FutureException(doc_type) ELSE FutureValue(doc_type, "content")

TaskFunction(kind, item, event) ==
    IF kind = "parts_search" THEN _search_single_part(item, event)
    ELSE IF kind = "detected_parts" THEN _process_single_part(item, event)
    ELSE IF kind = "ocr" THEN process_pdf_workflow(item, event)
    ELSE _download_image(item, event)

\* max_workers of each pool
MaxSearchWorkers == 10

PartProcessWorkers == 5

DownloadWorkers == 10

OcrWorkers == 2

Min(a, b) == IF a < b THEN a ELSE b

MaxWorkers(kind, n) ==
    IF kind = "parts_search" THEN Min(n, MaxSearchWorkers)
    ELSE IF kind = "detected_parts" THEN PartProcessWorkers
    ELSE IF kind = "ocr" THEN OcrWorkers
    ELSE DownloadWorkers

ResultRecord(item, outcome) == [item |-> item, outcome |-> outcome]

\* the body of the collecting loop for one future: the new results list, or
\* the exception future.result() re-raised
CollectFuture(kind, results, item, fut) ==
    IF fut.raised
    THEN IF kind = "parts_search"
         THEN [aborted |-> FALSE, results |-> Append(results, ResultRecord(item, "ERROR"))]
         ELSE [aborted |-> TRUE, results |-> results]
    ELSE IF kind = "image_download" /\ fut.outcome = "None"
         THEN [aborted |-> FALSE, results |-> results]
    ELSE [aborted |-> FALSE, results |-> Append(results, ResultRecord(fut.item, fut.outcome))]

Queued == [st |-> "queued", event |-> "", fut |-> FutureValue("", "")]

PoolItems == {"p", "q"}

\* the function that owns the pool is called with a non-empty batch
PoolInit ==
    /\ pool_kind \in PoolKinds
    /\ IF pool_kind = "ocr" THEN pool_inputs = <<"assignment", "rubric">>
       ELSE pool_inputs \in {l \in SeqsUpTo(PoolItems, MaxTasks) : l # <<>>}
    /\ pool_workers = 0
    /\ pool_task = <<>>
    /\ pool_collected = {}
    /\ pool_results = <<>>
    /\ pool_pc = "called"

PoolIdle ==
    /\ pool_kind = "parts_search"
    /\ pool_inputs = <<>>
    /\ pool_workers = 0
    /\ pool_task = <<>>
    /\ pool_collected = {}
    /\ pool_results = <<>>
    /\ pool_pc = "idle"

Running == {i \in DOMAIN pool_task : pool_task[i].st = "running"}

\* the executor is created. lookup_parts.main first renders the categories
\* (line 203), outside any try: get_categories_md raises AttributeError on
\* an entry that is no dictionary, and main ends before the pool exists.
\* The categories are a non-empty dictionary: a category tree, or one with
\* an entry that is no dictionary, as {"a": 1}
PoolCreate ==
    /\ pool_pc = "called"
    /\ \E categories \in {c \in CategoriesValues : c.type = "dict" /\ c.truthy} :
         IF pool_kind = "parts_search"
            /\ main(JValue("list", TRUE, pool_inputs, TRUE), categories).raised # ""
         THEN /\ pool_pc' = "raised"
              /\ UNCHANGED pool_workers
         ELSE /\ pool_workers' = MaxWorkers(pool_kind, Len(pool_inputs))
              /\ pool_pc' = "submitting"
    /\ UNCHANGED <<pool_kind, pool_inputs, pool_task, pool_collected, pool_results,
                   wfVars, mpVars, extVars>>

\* one executor.submit: the next item's task is queued; after the last one
\* the owner goes on to collect. Tasks submitted earlier begin and end
\* while the later ones are not yet submitted
PoolSubmit ==
    /\ pool_pc = "submitting"
    /\ pool_task' = Append(pool_task, Queued)
    /\ pool_pc' = IF Len(pool_task') = Len(pool_inputs) THEN "collecting" ELSE "submitting"
    /\ UNCHANGED <<pool_kind, pool_inputs, pool_workers, pool_collected, pool_results,
                   wfVars, mpVars, extVars>>

\* a free worker thread takes the oldest queued task
PoolStart ==
    /\ pool_pc \in {"submitting", "collecting", "unwinding"}
    /\ Cardinality(Running) < pool_workers
    /\ \E i \in DOMAIN pool_task :
         /\ pool_task[i].st = "queued"
         /\ \A j \in 1..(i - 1) : pool_task[j].st # "queued"
         /\ pool_task' = [pool_task EXCEPT ![i].st = "running"]
    /\ UNCHANGED <<pool_kind, pool_inputs, pool_workers, pool_collected, pool_results,
                   pool_pc, wfVars, mpVars, extVars>>

\* a running task function returns or raises; its future is set
PoolFinish ==
    /\ pool_pc \in {"submitting", "collecting", "unwinding"}
    /\ \E i \in Running, event \in BodyEvents(pool_kind) :
         pool_task' = [pool_task EXCEPT ![i] =
                          [st |-> "done", event |-> event,
                           fut |-> TaskFunction(pool_kind, pool_inputs[i], event)]]
    /\ UNCHANGED <<pool_kind, pool_inputs, pool_workers, pool_collected, pool_results,
                   pool_pc, wfVars, mpVars, extVars>>

\* the futures the collecting code may take next: any finished one under
\* as_completed, the next in submission order in analyze-assignment
Collectable ==
    {i \in DOMAIN pool_task :
        /\ pool_task[i].st = "done"
        /\ i \notin pool_collected
        /\ pool_kind = "ocr" => \A j \in 1..(i - 1) : j \in pool_collected}

PoolCollect ==
    /\ pool_pc = "collecting"
    /\ \E i \in Collectable :
         LET r == CollectFuture(pool_kind, pool_results, pool_inputs[i], pool_task[i].fut)
         IN /\ pool_results' = r.results
            /\ pool_collected' = pool_collected \cup {i}
            /\ pool_pc' = IF r.aborted THEN "unwinding" ELSE "collecting"
    /\ UNCHANGED <<pool_kind, pool_inputs, pool_workers, pool_task, wfVars, mpVars, extVars>>

\* leaving the with block waits for every task; then the function returns,
\* or the exception leaves it
PoolExit ==
    /\ \/ pool_pc = "collecting" /\ pool_collected = DOMAIN pool_task
       \/ pool_pc = "unwinding"
    /\ \A i \in DOMAIN pool_task : pool_task[i].st = "done"
    /\ pool_pc' = IF pool_pc = "unwinding" THEN "aborted" ELSE "done"
    /\ UNCHANGED <<pool_kind, pool_inputs, pool_workers, pool_task, pool_collected,
                   pool_results, wfVars, mpVars, extVars>>

PoolNext == PoolCreate \/ PoolSubmit \/ PoolStart \/ PoolFinish \/ PoolCollect \/ PoolExit

\* ------------------------------------------- reverse_image_search.main
\* bound: image results in one SerpAPI response
MaxResults == 2

\* the key upload_image_to_s3 generates
NewKey == "reverse-image-search/1.jpg"

\* the keys a caller may hand to cleanup_s3_image: the uploaded object's and
\* one of an object that is not in the bucket
S3Keys == {NewKey, "reverse-image-search/2.jpg"}

SEARCH_QUERY == "automotive"

\* the q parameter perform_reverse_image_search sends, "" when it sends none
SearchQuery(query) == IF query = "None" THEN SEARCH_QUERY ELSE query

\* an entry of image_results: positions count from 1
ImageResult(position, thumbnail) == [position |-> position, thumbnail |-> thumbnail]

\* the responses of SerpAPI: image_results with and without thumbnails
ApiResponses ==
    UNION {{[k \in 1..n |-> ImageResult(k, t[k])] : t \in [1..n -> BOOLEAN]} : n \in 0..MaxResults}

\* process_search_results: one record per image result, with the bytes
\* _fetch_result_images got for its thumbnail ("None": no thumbnail, or the
\* download failed); downloaded[k] tells whether the download of entry k works
process_search_results(image_results, downloaded) ==
    [k \in 1..Len(image_results) |->
        [position |-> image_results[k].position,
         thumbnail |-> image_results[k].thumbnail,
         image_bytes |-> IF image_results[k].thumbnail /\ downloaded[k] THEN "png" ELSE "None"]]

RisInit ==
    /\ ris_cleanup \in BOOLEAN
    /\ ris_query \in {"None", "", "q"}
    /\ ris_pc = "upload"
    /\ ris_s3_key = "None"
    /\ ris_failed = FALSE
    /\ ris_response = [q |-> "", image_results |-> <<>>]
    /\ ris_results = <<>>
    /\ s3_bucket = {}

RisIdle ==
    /\ ris_cleanup = TRUE
    /\ ris_query = "None"
    /\ ris_pc = "idle"
    /\ ris_s3_key = "None"
    /\ ris_failed = FALSE
    /\ ris_response = [q |-> "", image_results |-> <<>>]
    /\ ris_results = <<>>
    /\ s3_bucket = {}

\* steps 1 and 2: upload_image_to_s3 and generate_public_url
RisUpload ==
    /\ ris_pc = "upload"
    /\ \E ok \in BOOLEAN :
         IF ok
         THEN /\ s3_bucket' = s3_bucket \cup {NewKey}
              /\ ris_s3_key' = NewKey
              /\ ris_pc' = "search"
              /\ UNCHANGED ris_failed
         ELSE /\ ris_failed' = TRUE
              /\ ris_pc' = "finally"
              /\ UNCHANGED <<s3_bucket, ris_s3_key>>
    /\ UNCHANGED <<ris_cleanup, ris_query, ris_response, ris_results,
                   wfVars, mpVars, poolVars, catVars, imVars, cacheVars, lhVars>>

\* step 3: perform_reverse_image_search
RisSearch ==
    /\ ris_pc = "search"
    /\ \/ /\ \E r \in ApiResponses :
               ris_response' = [q |-> SearchQuery(ris_query), image_results |-> r]
          /\ ris_pc' = "process"
          /\ UNCHANGED ris_failed
       \/ /\ ris_failed' = TRUE
          /\ ris_pc' = "finally"
          /\ UNCHANGED ris_response
    /\ UNCHANGED <<ris_cleanup, ris_query, ris_s3_key, ris_results, s3_bucket,
                   wfVars, mpVars, poolVars, catVars, imVars, cacheVars, lhVars>>

\* step 4: process_search_results
RisProcess ==
    /\ ris_pc = "process"
    /\ \/ \E downloaded \in [1..Len(ris_response.image_results) -> BOOLEAN] :
            /\ ris_results' = process_search_results(ris_response.image_results, downloaded)
            /\ UNCHANGED ris_failed
       \/ /\ ris_failed' = TRUE
          /\ UNCHANGED ris_results
    /\ ris_pc' = "finally"
    /\ UNCHANGED <<ris_cleanup, ris_query, ris_s3_key, ris_response, s3_bucket,
                   wfVars, mpVars, poolVars, catVars, imVars, cacheVars, lhVars>>

\* the finally block (its call of cleanup_s3_image is commented out), then
\* main returns or re-raises
RisFinally ==
    /\ ris_pc = "finally"
    /\ ris_pc' = IF ris_failed THEN "raised" ELSE "returned"
    /\ UNCHANGED <<ris_cleanup, ris_query, ris_s3_key, ris_failed, ris_response, ris_results,
                   s3_bucket, wfVars, mpVars, poolVars, catVars, imVars, cacheVars, lhVars>>

\* the bucket after cleanup_s3_image(s3_key): delete_object removes the
\* object, a key that is not in the bucket included; when delete_object
\* raises, the function prints a warning and the bucket is as before
\* (S3_BUCKET_NAME is a non-empty constant of the module, so the ValueError
\* branch is never taken)
cleanup_s3_image(bucket, s3_key, deleted) ==
    IF deleted THEN bucket \ {s3_key} ELSE bucket

\* a user of the module calls the public function cleanup_s3_image; main
\* never does, and does not return the key, so the call can come at any
\* moment and with any key
RisCleanup ==
    /\ ris_pc # "idle"
    /\ \E s3_key \in S3Keys, deleted \in BOOLEAN :
         s3_bucket' = cleanup_s3_image(s3_bucket, s3_key, deleted)
    /\ UNCHANGED <<ris_cleanup, ris_query, ris_pc, ris_s3_key, ris_failed, ris_response,
                   ris_results, wfVars, mpVars, poolVars, catVars, imVars, cacheVars, lhVars>>

RisNext == RisUpload \/ RisSearch \/ RisProcess \/ RisFinally \/ RisCleanup

\* ------------------------------------------- lookup_parts.get_categories_md
\* bound: categories in the tree handed to get_categories_md
MaxNodes == 3

\* keys and 'text' fields of the categories, by position in the tree
CatIds == <<"100001", "100002", "100003", "100004", "100005">>
CatTexts == <<"Body", "Engine", "Brakes", "Cooling", "Steering">>

\* a category tree of the documented structure (the keys of a dictionary
\* are distinct, no key is "categories"): categories 1..n in the order the
\* dictionaries list them, parent[i] the category whose 'children'
\* dictionary holds i (0 at the top level), children[i] the kind of value
\* under 'children' ("dict", "list" for [], "missing" for no such key),
\* text[i] whether the category has a 'text' field
CategoryTrees ==
    UNION {{[n |-> n, parent |-> p, children |-> c, text |-> x] :
              p \in {f \in [1..n -> 0..n] : \A i \in 1..n : f[i] < i},
              c \in [1..n -> {"dict", "list", "missing"}],
              x \in [1..n -> BOOLEAN]} : n \in 0..MaxNodes}

WellFormedTree(tree) ==
    \A i \in 1..tree.n : tree.parent[i] # 0 => tree.children[tree.parent[i]] = "dict"

EmptyTree == [n |-> 0, parent |-> <<>>, children |-> <<>>, text |-> <<>>]

\* node.get('text', id)
CatName(tree, i) == IF tree.text[i] THEN CatTexts[i] ELSE CatIds[i]

\* lines 71-72: the children are an empty list, an empty dictionary, or
\* absent (get's default {})
is_leaf(tree, i) ==
    \/ tree.children[i] \in {"list", "missing"}
    \/ tree.children[i] = "dict" /\ \A k \in 1..tree.n : tree.parent[k] # i

RECURSIVE collect_leaf_nodes(_, _, _)
RECURSIVE CollectChildren(_, _, _, _)
\* lines 66-79: the loop over children.items(), from the k-th category on
CollectChildren(tree, node, k, parent_name) ==
    IF k > tree.n THEN <<>>
    ELSE IF tree.parent[k] # node THEN CollectChildren(tree, node, k + 1, parent_name)
    ELSE (IF is_leaf(tree, k)
          THEN <<[child_id |-> CatIds[k], child_name |-> CatName(tree, k),
                  parent_name |-> parent_name]>>
          ELSE collect_leaf_nodes(tree, k, parent_name))
         \o CollectChildren(tree, node, k + 1, parent_name)

\* lines 53-81
collect_leaf_nodes(tree, node, parent_name) ==
    IF tree.children[node] = "list" THEN <<>>
    ELSE CollectChildren(tree, node, 1, parent_name)

\* the lines of the markdown text, as the pieces the f-strings join
HeaderLine(name) == <<"# ", name>>
BulletLine(name, id) == <<"- ", name, " (", id, ")">>
BlankLine == <<>>

RECURSIVE BulletLines(_)
BulletLines(leaf_nodes) ==
    IF leaf_nodes = <<>> THEN <<>>
    ELSE <<BulletLine(Head(leaf_nodes).child_name, Head(leaf_nodes).child_id)>>
         \o BulletLines(Tail(leaf_nodes))

\* lines 87-101: the body of the loop for one top-level category
ParentLines(tree, parent_id) ==
    LET parent_name == CatName(tree, parent_id)
    IN <<HeaderLine(parent_name)>>
       \o BulletLines(collect_leaf_nodes(tree, parent_id, parent_name))
       \o <<BlankLine>>

\* line 104: "\n".join(lines).strip() takes the blank lines off both ends
\* (no name here is blank or has blanks at its ends)
RECURSIVE StripLines(_)
StripLines(lines) ==
    IF lines = <<>> THEN <<>>
    ELSE IF Head(lines) = BlankLine THEN StripLines(Tail(lines))
    ELSE IF lines[Len(lines)] = BlankLine THEN StripLines(SubSeq(lines, 1, Len(lines) - 1))
    ELSE lines

\* the next top-level category from k on, tree.n + 1 when there is none
RECURSIVE NextParent(_, _)
NextParent(tree, k) ==
    IF k > tree.n THEN tree.n + 1
    ELSE IF tree.parent[k] = 0 THEN k
    ELSE NextParent(tree, k + 1)

CatInit ==
    /\ cat_tree \in {tree \in CategoryTrees : WellFormedTree(tree)}
    /\ cat_next = NextParent(cat_tree, 1)
    /\ cat_lines = <<>>
    /\ cat_result = <<>>
    /\ cat_pc = "loop"

CatIdle ==
    /\ cat_tree = EmptyTree
    /\ cat_next = 1
    /\ cat_lines = <<>>
    /\ cat_result = <<>>
    /\ cat_pc = "idle"

\* one pass of the loop over categories.items()
CatParent ==
    /\ cat_pc = "loop"
    /\ cat_next <= cat_tree.n
    /\ cat_lines' = cat_lines \o ParentLines(cat_tree, cat_next)
    /\ cat_next' = NextParent(cat_tree, cat_next + 1)
    /\ UNCHANGED <<cat_tree, cat_result, cat_pc,
                   wfVars, mpVars, poolVars, imVars, cacheVars, lhVars, risVars>>

\* lines 103-106
CatReturn ==
    /\ cat_pc = "loop"
    /\ cat_next > cat_tree.n
    /\ cat_result' = StripLines(cat_lines)
    /\ cat_pc' = "done"
    /\ UNCHANGED <<cat_tree, cat_next, cat_lines,
                   wfVars, mpVars, poolVars, imVars, cacheVars, lhVars, risVars>>

CatNext == CatParent \/ CatReturn

\* the state outside the workflow run, match_part_node and the pools is idle
ExtIdle == ImIdle /\ CacheIdle /\ LhIdle /\ RisIdle /\ CatIdle

\* ---------------------------------------------------------- specifications
Init == WfInit /\ MpIdle /\ PoolIdle /\ ExtIdle

Next == WfNext

Spec == Init /\ [][Next]_vars

\* a run whose next node, once it can run, does run: each model call and
\* catalog request returns or fails
SpecTerminating == Spec /\ WF_vars(Next)

InitMatch == WfIdle /\ MpInit /\ PoolIdle /\ ExtIdle

SpecMatch == InitMatch /\ [][MpNext]_vars

InitPool == WfIdle /\ MpIdle /\ PoolInit /\ ExtIdle

SpecPool == InitPool /\ [][PoolNext]_vars

InitInvoke == WfIdle /\ MpIdle /\ PoolIdle /\ ImInit /\ CacheIdle /\ LhIdle /\ RisIdle /\ CatIdle

SpecInvoke == InitInvoke /\ [][ImNext]_vars

InitCache == WfIdle /\ MpIdle /\ PoolIdle /\ ImIdle /\ CacheInit /\ LhIdle /\ RisIdle /\ CatIdle

SpecCache == InitCache /\ [][CacheNext]_vars

InitHandler == WfIdle /\ MpIdle /\ PoolIdle /\ ImIdle /\ CacheIdle /\ LhInit /\ RisIdle /\ CatIdle

SpecHandler == InitHandler /\ [][LhNext]_vars

InitSearch == WfIdle /\ MpIdle /\ PoolIdle /\ ImIdle /\ CacheIdle /\ LhIdle /\ RisInit /\ CatIdle

SpecSearch == InitSearch /\ [][RisNext]_vars

InitCategories == WfIdle /\ MpIdle /\ PoolIdle /\ ImIdle /\ CacheIdle /\ LhIdle /\ RisIdle /\ CatInit

SpecCategories == InitCategories /\ [][CatNext]_vars

\* ------------------------------------------------------------- properties
Count(seq, x) == Cardinality({i \in DOMAIN seq : seq[i] = x})

Last(seq) == seq[Len(seq)]

ApiErrors == {"API_UNAVAILABLE", "API_ERROR"}

\* the last node executed was get_parts_list and it ended in a failed or
\* empty catalog query
CatalogFailed == /\ trace # <<>>
                 /\ Last(trace) = "get_parts_list"
                 /\ state.error \in ApiErrors

\* number of answers of the model recorded in the history: the number of
\* successful executions of infer_category
Answers == Cardinality({i \in DOMAIN state.chat_history :
                           state.chat_history[i].role = "assistant"})

\* C1: in one run of run_workflow the node get_parts_list is executed at
\* most 4 times, and at most 4 catalog requests are issued.
C1_CatalogQueryBound ==
    /\ Count(trace, "get_parts_list") <= 4
    /\ Len(requested) <= 4

\* a run that used every retry the code grants and then returned
C1_Witness ==
    /\ pc = "returned"
    /\ Count(trace, "get_parts_list") = 3
    /\ Len(requested) = 3

\* C2: when a catalog query fails or is empty and the retry counter has
\* reached 3, the run ends without match_part and get_part_details, and
\* run_workflow returns MAX_RETRIES exactly in that case.
C2_MaxRetries ==
    /\ (CatalogFailed /\ state.retry_count >= 3)
          => /\ pc \in {"END", "returned"}
             /\ Count(trace, "match_part") = 0
             /\ Count(trace, "get_part_details") = 0
    /\ pc = "returned"
          => (ret.status = "MAX_RETRIES" <=> (CatalogFailed /\ state.retry_count >= 3))

C2_Witness ==
    /\ pc = "returned"
    /\ ret.status = "MAX_RETRIES"
    /\ state.error = "API_UNAVAILABLE"

\* the distinct non-empty article names of the state match_part_node is given
MpNames == {mp_state.parts_list[i].articleProductName : i \in DOMAIN mp_state.parts_list}
           \ {<<>>}

\* C3: when the catalog entries hold exactly one distinct non-empty article
\* name, match_part makes no model call and answers SUCCESS with that name.
C3_SingleArticleNoModelCall ==
    (mp_pc = "done" /\ Cardinality(MpNames) = 1)
       => /\ ~mp_out.called
          /\ mp_out.state.result.status = "SUCCESS"
          /\ mp_out.state.result.part_name \in MpNames

\* two entries of the same name, and a model that would have answered
C3_Witness ==
    /\ mp_pc = "done"
    /\ Len(mp_state.parts_list) = 2
    /\ Cardinality(MpNames) = 1
    /\ mp_state.parts_list[1].articleProductName = mp_state.parts_list[2].articleProductName
    /\ mp_prompts
    /\ mp_reply.kind = "text"
    /\ mp_out.state.result.status = "SUCCESS"

NamedLike(parts_list, name) ==
    \E i \in DOMAIN parts_list : Lower(parts_list[i].articleProductName) = Lower(name)

\* C4: whenever the workflow's result, or the record run_workflow returns,
\* has status SUCCESS, its part_name equals case-insensitively the
\* articleProductName of an entry of the parts_list the catalog returned.
C4_NoFabricatedMatch ==
    /\ state.result.status = "SUCCESS" => NamedLike(state.parts_list, state.result.part_name)
    /\ ret.status = "SUCCESS" => NamedLike(state.parts_list, ret.part_name)

\* a match the model chose, spelled in another case than the catalog's
C4_Witness ==
    /\ pc = "returned"
    /\ ret.status = "SUCCESS"
    /\ \E i \in DOMAIN llm_calls : llm_calls[i].node = "match_part"
    /\ \A i \in DOMAIN state.parts_list : state.parts_list[i].articleProductName # ret.part_name

\* the answer of the reply is not, ignoring case, one of the candidates:
\* no answer at all, or another name
AnswerNotCandidate ==
    LET answer == _parse_xml_tag(mp_reply.text, "replacement")
    IN \/ ~answer.ok
       \/ Lower(Strip(answer.val)) \notin {Lower(n) : n \in MpNames}

\* C5: with several distinct candidates, every response of the model whose
\* answer is not case-insensitively a candidate (an empty response and a
\* response without <replacement> tag included) yields status NO_MATCH.
C5_UnknownAnswerIsNoMatch ==
    (/\ mp_pc = "done"
     /\ Cardinality(MpNames) > 1
     /\ mp_prompts
     /\ mp_reply.kind = "text"
     /\ AnswerNotCandidate)
       => mp_out.state.result.status = "NO_MATCH"

PoolCount(x) == Cardinality({i \in DOMAIN pool_inputs : pool_inputs[i] = x})

ResultCount(x) == Cardinality({k \in DOMAIN pool_results : pool_results[k].item = x})

\* C6: called with a non-empty list, lookup_parts.main returns (it never
\* raises) exactly one record per part description, under every
\* interleaving and whatever searches fail; the descriptions of the records
\* are the inputs as a multiset.
C6_BatchReturnsN ==
    pool_kind = "parts_search"
       => /\ pool_pc \notin {"raised", "unwinding", "aborted"}
          /\ pool_pc = "done"
                => /\ Len(pool_results) = Len(pool_inputs)
                   /\ \A x \in PoolItems : ResultCount(x) = PoolCount(x)

\* C7: no workflow node raises: every failure of a call a node makes ends
\* in a returned state, so app.invoke never raises.
C7_NoNodeRaises == pc # "raised"

\* C8 as stated: infer_category is executed again only after an empty
\* catalog result, never after a failed model call or a catalog error.
C8_OnlyEmptyResultRetried ==
    (pc = "infer_category" /\ trace # <<>>)
       => /\ state.error = "API_UNAVAILABLE"
          /\ Count(trace, "infer_category") = Answers

\* C8 amended: every failed attempt is retried while the retry counter is
\* below 3: after get_parts_list ended with API_UNAVAILABLE or API_ERROR
\* infer_category runs again, in no other case; a failure inside
\* infer_category does not stop the run, get_parts_list runs next.
C8_EveryFailureRetried ==
    /\ (pc = "infer_category" /\ trace # <<>>)
          => (CatalogFailed /\ state.retry_count < 3)
    /\ (CatalogFailed /\ state.retry_count < 3) => pc = "infer_category"
    /\ (trace # <<>> /\ Last(trace) = "infer_category") => pc = "get_parts_list"

\* a retry after a catalog request that raised, in a run where a model call
\* of infer_category had failed as well
C8_Witness ==
    /\ pc = "infer_category"
    /\ state.error = "API_ERROR"
    /\ Len(requested) = Count(trace, "get_parts_list")
    /\ Count(trace, "infer_category") > Answers

\* C9: the retry_count run_workflow returns is the number of times the
\* workflow went back from get_parts_list to infer_category.
C9_RetryCountIsLoopbacks == pc = "returned" => ret.retry_count = loopbacks

Failed == {i \in DOMAIN pool_task : pool_task[i].st = "done" /\ pool_task[i].event = "exc"}

\* C10 as stated: in every pool a task's exception becomes a per-item
\* failure outcome and the batch completes.
C10_NoBatchAborts ==
    /\ pool_pc \notin {"unwinding", "aborted"}
    /\ \A i \in Failed : ~pool_task[i].fut.raised

\* C11: workflow instances of one process are independent: what a model call
\* of one instance does after a given series of API outcomes of its own (the
\* model it falls back to, or giving up) is the same in every instance, so it
\* depends on nothing that happened in another instance or an earlier run.
C11_InstancesIndependent ==
    \A i \in Instances, j \in Instances :
        \A k \in 1..Min(Len(im_tried[i]), Len(im_tried[j])) :
            SubSeq(im_events[i], 1, k - 1) = SubSeq(im_events[j], 1, k - 1)
                => im_tried[i][k] = im_tried[j][k]

\* the tasks that are between a cache read that did not serve the call and
\* the end of the cache write of the same call
Filling(key) == {t \in CacheTasks : cr_task[t].key = key
                                    /\ cr_task[t].pc \in {"requesting", "stamping", "writing"}}

\* C12: the check-then-fill sequence of _cached_api_request is mutually
\* exclusive: no two tasks are at the same time between the cache read and
\* the cache write for the same key.
C12_CheckThenFillExclusive ==
    \A key \in CacheKeys : Cardinality(Filling(key)) <= 1

\* the node that ran in this step, "" when none did
StepNode == IF Len(trace') = Len(trace) + 1 THEN trace'[Len(trace')] ELSE ""

\* what the step of a node did to the conversation history
HistoryStep ==
    LET old == state.chat_history
        new == state'.chat_history
    IN /\ StepNode = "infer_category" /\ state'.error = ""
            => /\ Len(new) = Len(old) + 2
               /\ SubSeq(new, 1, Len(old)) = old
               /\ new[Len(old) + 1] = Msg("user", InferPrompt)
               /\ new[Len(old) + 2].role = "assistant"
               /\ _parse_xml_tag(new[Len(old) + 2].content, "subcategory_id").val
                     = state'.category_id
       /\ StepNode = "infer_category" /\ state'.error # "" => new = old
       /\ StepNode = "get_parts_list" /\ (state'.error # "" \/ pc' = "raised")
            => new = Append(old, Msg("user", InvalidCategoryPrompt))
       /\ StepNode = "get_parts_list" /\ state'.error = "" /\ pc' # "raised" => new = old
       /\ StepNode \notin {"infer_category", "get_parts_list"} => new = old

\* what the step sent to the model when it asked for a category
HistorySent ==
    Len(llm_calls') = Len(llm_calls) + 1 /\ StepNode = "infer_category"
        => LET sent == llm_calls'[Len(llm_calls')].messages
               old == state.chat_history
           IN /\ sent = <<Msg("system", SystemPrompt)>> \o old \o <<Msg("user", InferPrompt)>>
              /\ loopbacks > 0 => sent[Len(sent) - 1] = Msg("user", InvalidCategoryPrompt)
              /\ loopbacks > 0 /\ state.category_id # <<>>
                   => \E k \in 1..(Len(old) - 1) :
                         /\ old[k].role = "assistant"
                         /\ old[k + 1] = Msg("user", InvalidCategoryPrompt)

\* C13: the conversation history of a run is append-only: a successful
\* infer_category appends its user prompt and the model's answer, a failed or
\* empty get_parts_list appends exactly one invalid-category notice, no other
\* step changes it, and every retry sends the whole history, in order, before
\* the new prompt.
C13_HistoryAppendOnly == [][HistoryStep /\ HistorySent]_vars

\* entry i of the catalog list carries the accepted part name (trimmed,
\* whatever the case) and an article id
MatchingEntry(i) ==
    /\ Lower(Strip(state.parts_list[i].articleProductName))
          = Lower(Strip(state.result.part_name))
    /\ state.parts_list[i].articleId # 0

\* a detail record with at least one non-empty OEM number
Usable(d) == d.kind = "data" /\ \E k \in 1..Len(d.oemNo) : d.oemNo[k] # ""

DetailsRan == Count(trace, "get_part_details") > 0

\* what each detail request returned
DetailServed == [k \in 1..Len(detail_positions) |-> detail_records[detail_positions[k]]]

\* C14: get_part_details requests details in list order and only for the
\* entries that carry the accepted name and an article id; it requests nothing
\* after the first entry whose record has a non-empty OEM number, and the
\* oem_numbers and s3image_uri it returns come from that record.
C14_DetailScan ==
    DetailsRan =>
        /\ \A k \in 1..Len(detail_positions) :
              /\ detail_positions[k] \in 1..Len(state.parts_list)
              /\ MatchingEntry(detail_positions[k])
              /\ detail_requests[k] = state.parts_list[detail_positions[k]].articleId
              /\ k > 1 => detail_positions[k - 1] < detail_positions[k]
        /\ \A k \in 1..Len(DetailServed) :
              Usable(DetailServed[k])
                  => /\ k = Len(DetailServed)
                     /\ state.oem_numbers = SelectSeq(DetailServed[k].oemNo, LAMBDA o : o # "")
                     /\ state.s3image_uri = DetailServed[k].s3image

\* a scan that passed an entry without OEM numbers and stopped at the next
C14_Witness ==
    /\ DetailsRan
    /\ Len(DetailServed) = 2
    /\ ~Usable(DetailServed[1])
    /\ Usable(DetailServed[2])
    /\ state.oem_numbers # <<>>

\* C15: get_part_details keeps fetching until a matching entry yields OEM
\* numbers: when a key and a country filter are given and some entry with
\* the accepted name has a detail record with a non-empty OEM number, the
\* final state has non-empty oem_numbers, also when the request for an
\* earlier matching entry failed.
C15_FetchUntilUsable ==
    /\ DetailsRan
    /\ env.keyOk
    /\ state.country_filter_id # 0
    /\ "part_name" \in state.result.keys
    /\ \E i \in 1..Len(state.parts_list) : MatchingEntry(i) /\ Usable(detail_records[i])
    => state.oem_numbers # <<>>

\* a request the handler has to reject: the body is no JSON text, or it is
\* a JSON object (the default {} when the event has no body) in which one of
\* the four fields is missing, empty or not of its type
InvalidRequest(event) ==
    \/ event.kind = "invalid"
    \/ /\ event.kind \in {"object", "absent"}
       /\ \/ ~(event.vehicle_id.type = "int" /\ event.vehicle_id.truthy)
          \/ ~(event.country_filter_id.type = "int" /\ event.country_filter_id.truthy)
          \/ ~(event.categories.type = "dict" /\ event.categories.truthy)
          \/ ~(event.parts.type = "list" /\ event.parts.truthy)

\* C16: input validation failures are rejected immediately: with its secrets
\* loaded, lambda_handler answers 400 and starts no part search when the body
\* is not valid JSON or vehicle_id, country_filter_id, categories or parts is
\* missing, empty or of the wrong type; main raises ValueError for an empty
\* parts list before any worker is submitted.
C16_ValidationRejects ==
    /\ lh_entry = "lambda_handler" /\ lh_pc = "returned" /\ lh_secrets
          /\ InvalidRequest(lh_event)
       => lh_response.statusCode = 400 /\ lh_submitted = 0
    /\ lh_entry = "main" /\ lh_pc = "returned" /\ ~lh_event.parts.truthy
       => lh_response.raised = "ValueError" /\ lh_submitted = 0

\* C17: run_workflow never raises and always returns a record whose status
\* is SUCCESS, NO_MATCH, ERROR or MAX_RETRIES, whatever the model and the
\* catalog answer.
C17_ReturnsStatus ==
    pc = "returned"
        => /\ "status" \in ret.keys
           /\ ret.status \in {"SUCCESS", "NO_MATCH", "ERROR", "MAX_RETRIES"}

\* a node raised inside app.invoke and run_workflow returned an ERROR record
C17_Witness ==
    /\ pc = "returned"
    /\ Last(trace) = "get_parts_list"
    /\ state.retry_count = 0
    /\ ret.status = "ERROR"
    /\ ret.message = "Workflow execution failed"

\* C18: in reverse_image_search.main, when cleanup is True and the upload
\* succeeded, the uploaded object is gone from the bucket by the time main
\* returns or raises: the step in which main leaves its finally block ends
\* with the key out of the bucket.
C18_UploadCleanedUp ==
    [][RisFinally /\ ris_cleanup /\ ris_s3_key # "None"
          => ris_s3_key \notin s3_bucket']_vars

\* C19: whenever run_workflow returns a record with status SUCCESS, the
\* record has a 'part' field with the matched part and a 'category' field
\* with the selected category.
C19_SuccessHasPartAndCategory ==
    pc = "returned" /\ ret.status = "SUCCESS" => {"part", "category"} \subseteq ret.keys

\* C20: get_parts_list runs only directly after infer_category; match_part
\* runs at most once and only directly after a get_parts_list that returned
\* a non-empty article list; get_part_details runs at most once and only
\* directly after match_part; once match_part has run, infer_category and
\* get_parts_list never run again.
C20_NodeOrder ==
    /\ \A k \in DOMAIN trace :
          /\ trace[k] = "get_parts_list" => k > 1 /\ trace[k - 1] = "infer_category"
          /\ trace[k] = "match_part" => k > 1 /\ trace[k - 1] = "get_parts_list"
          /\ trace[k] = "get_part_details" => k > 1 /\ trace[k - 1] = "match_part"
          /\ trace[k] = "match_part"
                => \A j \in (k + 1)..Len(trace) :
                      trace[j] \notin {"infer_category", "get_parts_list"}
    /\ Count(trace, "match_part") <= 1
    /\ Count(trace, "get_part_details") <= 1
    /\ pc \in {"infer_category", "get_parts_list"} => state.parts_list = <<>>
    /\ pc = "match_part" \/ Count(trace, "match_part") > 0 => state.parts_list # <<>>

\* a run that retried once and then went through all four nodes
C20_Witness ==
    /\ pc = "returned"
    /\ trace = <<"infer_category", "get_parts_list", "infer_category", "get_parts_list",
                 "match_part", "get_part_details">>

\* ------------------------------------------- claims on _cached_api_request
\* the call of the latest concluded cache read
LastCall == cr_task[cr_last.task]

\* a cache read was concluded and its task has not begun another call
LastRead == cr_last.task # 0 /\ LastCall.read # ""

\* the call returned without a remote request
Served(c) == c.pc = "returned" /\ ~c.remote

\* the table held an entry for the key, and its ttl was after the time the
\* call read
Fresh == cr_last.stored.present /\ cr_last.at < cr_last.stored.ttl

\* the table is configured, DynamoDB answered, the entry has its fields
Readable == cr_env /\ cr_last.dynamo = "ok" /\ cr_last.stored.wellformed

StoredResponse ==
    [status_code |-> cr_last.stored.status_code, content |-> cr_last.stored.content]

Is2xx(response) == 200 <= response.status_code /\ response.status_code < 300

\* C21 as stated: a call is served from the cache exactly when an entry
\* for the key exists and the time is before its ttl, with the stored
\* status code and content; any other call that returns has issued a
\* remote request and overwritten the entry.
C21_AsStated ==
    LastRead =>
        /\ Served(LastCall) <=> Fresh
        /\ Served(LastCall) => LastCall.response = StoredResponse
        /\ LastCall.pc = "returned" /\ ~Fresh => LastCall.remote /\ LastCall.wrote

\* what a step of a call does to the table
C21_WriteStep ==
    \A t \in CacheTasks :
        LET c == cr_task[t]
            d == cr_task'[t]
        IN /\ c.pc = "requesting" /\ d.pc = "returned" => ~cr_env \/ ~Is2xx(d.response)
           /\ c.pc = "requesting" /\ d.pc \notin {"requesting", "returned", "raised"} =>
                 d.pc = "stamping" /\ cr_env /\ Is2xx(d.response)
           /\ c.pc = "stamping" /\ d # c =>
                 d.pc = "writing" /\ d.ttl = now + cache_ttl_hours
           /\ c.pc = "writing" /\ d # c =>
                 /\ d.pc = "returned"
                 /\ IF d.wrote
                    THEN cache' = [cache EXCEPT ![c.key] =
                                      CacheItem(c.response.status_code, c.response.content,
                                                c.ttl)]
                    ELSE cache' = cache
           /\ (\A u \in CacheTasks : cr_task[u].pc # "writing") => cache' = cache

\* C21 (amended): a call is served from the cache exactly when the table
\* is configured, DynamoDB answers, and the entry get_item returned for
\* the key has its response fields and a ttl strictly after the time the
\* call reads next; it then returns the stored status code and content
\* without a remote request. Every other call that returns or raises has
\* issued a remote request; a 2xx response with the table configured is
\* followed by the computation of the ttl, the time then read plus
\* cache_ttl_hours, and by the write; a write that succeeds overwrites the
\* entry with the response and that ttl, while one that fails leaves the
\* table as it was.
C21_ServedIffReadableAndFresh ==
    /\ [](LastRead =>
            /\ Served(LastCall) <=> Readable /\ Fresh
            /\ Served(LastCall) => LastCall.response = StoredResponse)
    /\ [](\A t \in CacheTasks :
            LET c == cr_task[t]
            IN /\ c.pc \in {"stamping", "writing", "returned", "raised"} /\ ~Served(c)
                    => c.remote
               /\ c.wrote => c.remote /\ Is2xx(c.response) /\ c.table)
    /\ [][C21_WriteStep]_vars

\* one call was served from the cache, a later one met the expired entry
\* and wrote the new response
C21_Witness ==
    \E t, u \in CacheTasks :
        /\ Served(cr_task[t]) /\ cr_task[t].read = "hit"
        /\ cr_task[u].read = "expired" /\ cr_task[u].wrote
        /\ cr_last.task = u /\ cr_last.at = cr_last.stored.ttl
        /\ cache[cr_task[u].key].ttl = now + cache_ttl_hours

\* C22: only successful responses are cached. Every entry that has the
\* response fields has a 2xx status code, every step that changes an entry
\* stores a 2xx response, and a call whose remote request fails raises
\* without a write: the step that raises leaves the table unchanged and
\* the call that raised has written nothing.
C22_OnlySuccessCached ==
    /\ [](/\ \A k \in CacheKeys :
               cache[k].present /\ cache[k].wellformed => Is2xx(cache[k])
          /\ \A t \in CacheTasks :
               cr_task[t].pc = "raised" => cr_task[t].remote /\ ~cr_task[t].wrote)
    /\ [][/\ \A k \in CacheKeys :
               cache'[k] # cache[k] => cache'[k].wellformed /\ Is2xx(cache'[k])
          /\ \A t \in CacheTasks :
               cr_task[t].pc # "raised" /\ cr_task'[t].pc = "raised" => cache' = cache]_vars

\* one call stored a response under a key that had no entry, another call
\* raised
C22_Witness ==
    /\ cr_env
    /\ \E k \in CacheKeys \ {cache_key("u", "h")} : cache[k].present
    /\ \E t \in CacheTasks : cr_task[t].pc = "raised"

\* the cache was configured but could not be used at the read
CacheFailed(c) == c.read \in {"init_failed", "read_failed"}

\* what a call without a cache table does with a remote outcome
Uncached(outcome) ==
    IF outcome.kind = "raise"
    THEN [pc |-> "raised", response |-> NoResponse]
    ELSE [pc |-> "returned",
          response |-> [status_code |-> outcome.status_code, content |-> outcome.content]]

\* C23: cache failures never fail the request. A call whose cache
\* initialisation or cache read failed (a stored entry without the
\* response fields included) is never served from the cache and has
\* issued the remote request when it ends; the remote request of any call
\* ends as it does without a cache table (it raises, or its response is
\* the call's response), and the cache write, whether it succeeds or
\* fails, is followed by the return of that same response.
C23_CacheFailuresAbsorbed ==
    /\ [](\A t \in CacheTasks :
            LET c == cr_task[t]
            IN CacheFailed(c) =>
                  /\ c.pc \in {"requesting", "stamping", "writing", "returned", "raised"}
                  /\ c.pc # "requesting" => c.remote)
    /\ [][\A t \in CacheTasks :
            LET c == cr_task[t]
                d == cr_task'[t]
            IN /\ c.pc = "requesting" /\ d # c =>
                     \E outcome \in RemoteOutcomes :
                        LET u == Uncached(outcome)
                        IN /\ d.response = u.response
                           /\ d.pc = u.pc \/ (u.pc = "returned" /\ d.pc = "stamping")
               /\ c.pc = "stamping" /\ d # c =>
                     d.pc = "writing" /\ d.response = c.response
               /\ c.pc = "writing" /\ d # c =>
                     d.pc = "returned" /\ d.response = c.response]_vars

\* one call returned the remote response after the initialisation failed
\* (so that the write failed too), another after it met an entry without
\* the response fields
C23_Witness ==
    \E t, u \in CacheTasks :
        /\ cr_task[t].read = "init_failed" /\ cr_task[t].pc = "returned"
        /\ Is2xx(cr_task[t].response) /\ ~cr_task[t].wrote
        /\ cr_task[u].read = "read_failed" /\ cr_task[u].pc = "returned"
        /\ cr_last.task = u /\ cr_last.dynamo = "ok" /\ ~cr_last.stored.wellformed

\* --------------------------------------------- claims on get_categories_md
\* the categories the 'children' dictionary of category i holds
HasChildren(tree, i) == \E k \in 1..tree.n : tree.parent[k] = i

RECURSIVE TopAncestor(_, _)
TopAncestor(tree, i) == IF tree.parent[i] = 0 THEN i ELSE TopAncestor(tree, tree.parent[i])

BulletOf(tree, i) == BulletLine(CatName(tree, i), CatIds[i])

IsHeader(line) == line # BlankLine /\ line[1] = "# "

\* the header line closest above line k
RECURSIVE HeaderAbove(_, _)
HeaderAbove(lines, k) ==
    IF k = 0 THEN BlankLine
    ELSE IF IsHeader(lines[k]) THEN lines[k]
    ELSE HeaderAbove(lines, k - 1)

\* C24: in the text get_categories_md returns, a category appears as a
\* bullet 'name (id)' if and only if it has no children, each such
\* category appears exactly once and under the header of its top-level
\* ancestor, and every top-level category produces one header.
C24_BulletsAreTheLeaves ==
    cat_pc = "done" =>
        /\ \A i \in 1..cat_tree.n :
              /\ (\E k \in DOMAIN cat_result : cat_result[k] = BulletOf(cat_tree, i))
                    <=> ~HasChildren(cat_tree, i)
              /\ ~HasChildren(cat_tree, i) =>
                    /\ Count(cat_result, BulletOf(cat_tree, i)) = 1
                    /\ \A k \in DOMAIN cat_result :
                          cat_result[k] = BulletOf(cat_tree, i) =>
                             HeaderAbove(cat_result, k)
                                = HeaderLine(CatName(cat_tree, TopAncestor(cat_tree, i)))
              /\ cat_tree.parent[i] = 0 =>
                    Count(cat_result, HeaderLine(CatName(cat_tree, i))) = 1
        /\ Cardinality({k \in DOMAIN cat_result : IsHeader(cat_result[k])})
              = Cardinality({i \in 1..cat_tree.n : cat_tree.parent[i] = 0})

\* --------------------------------------------------- claims on the workflow
\* C25: every run of the workflow terminates: run_workflow returns, and
\* along any path at most 8 nodes are executed, at most 3 times
\* infer_category, 3 times get_parts_list, once match_part and once
\* get_part_details.
C25_Terminates ==
    /\ [](/\ Len(trace) <= 8
          /\ Count(trace, "infer_category") <= 3
          /\ Count(trace, "get_parts_list") <= 3
          /\ Count(trace, "match_part") <= 1
          /\ Count(trace, "get_part_details") <= 1)
    /\ <>(pc = "returned")

\* a run of eight nodes that returned
C25_Witness ==
    /\ pc = "returned"
    /\ Len(trace) = 8
    /\ Count(trace, "infer_category") = 3
    /\ Count(trace, "get_part_details") = 1

\* the category id in the model's answer that closes the chat history,
\* <<>> when the history does not end with an answer of the model
LastInferred(st) ==
    IF st.chat_history # <<>> /\ Last(st.chat_history).role = "assistant"
    THEN _parse_xml_tag(Last(st.chat_history).content, "subcategory_id").val
    ELSE <<>>

\* C26: every catalog request get_parts_list issues follows an
\* infer_category execution that did not fail and asks for the category id
\* the model returned in that execution; after a failed inference no
\* catalog request is issued.
C26_RequestUsesInferredCategory ==
    [][pc = "get_parts_list" /\ requested' # requested =>
          /\ state.error # "Category inference failed"
          /\ requested' = Append(requested, LastInferred(state))]_vars

\* match_part ended without a part
Unmatched(st) == st.result.status \in {"NO_MATCH", "ERROR"}

\* C27: when match_part ended with status NO_MATCH or ERROR,
\* get_part_details issues no detail request and leaves result unchanged,
\* and the record run_workflow returns has that status, no OEM numbers
\* and an empty image URI.
C27_UnmatchedUntouched ==
    /\ [][pc = "get_part_details" /\ Unmatched(state) =>
             /\ state'.result = state.result
             /\ detail_requests' = <<>>
             /\ state'.oem_numbers = <<>>
             /\ state'.s3image_uri = ""]_vars
    /\ [](pc = "returned" /\ Count(trace, "match_part") = 1 /\ Unmatched(state) =>
             /\ detail_requests = <<>>
             /\ ret.status = state.result.status
             /\ ret.oem_numbers = <<>>
             /\ ret.s3image_uri = "")

\* a returned run in which the key and the country filter were there, the
\* category held an article with an id, and match_part found no part
C27_Witness ==
    /\ pc = "returned"
    /\ Last(trace) = "get_part_details"
    /\ env.keyOk /\ state.country_filter_id # 0
    /\ \E k \in DOMAIN state.parts_list : state.parts_list[k].articleId # 0
    /\ ret.status = "NO_MATCH"
====
